---------------------------- MODULE Spec2Model ----------------------------
(***************************************************************************)
(* SuperAI: the multi-provider streaming orchestration layer.              *)
(*                                                                         *)
(*   Spec      the /api/ask route: request validation, one branch per      *)
(*             entry of the request's model list, the provider adapters    *)
(*             (OpenAI Responses, Gemini, Claude) and the SSE wire.        *)
(*   SpecFast  the same route serving the three models of the Fast tier.   *)
(*   SpecLive  Spec with the fairness of the Promise.all continuation.     *)
(*   SpecDiff  the Gemini cumulative-text diffing function on its own.     *)
(*   SpecClient the browser side of one submission (useQuestionSubmit).    *)
(*   SpecAdapter one call of the OpenAI or of the Gemini adapter.          *)
(*   SpecClaude  one call of the Claude adapter, with its pause_turn rounds.*)
(*   SpecHistory the history of a request rebuilt for one model.           *)
(*   SpecAuth    the Basic Auth middleware on one request.                 *)
(*   SpecSliders the custom model selection under the slider operations.   *)
(*   SpecStored  the stored model selection resolved at start.             *)
(*   SpecSubmissions  the page with submissions in two sessions.           *)
(*   SpecSessions the session list, its storage and the reload.            *)
(*   SpecBytes   the Responses stream read in pieces of any size.          *)
(*   SpecTools   the model name and the tools of one OpenAI call.          *)
(*   SpecSwap    one call of setProviderModelSelection.                    *)
(*   SpecDrag    useDragDrop beside computeDragState.                      *)
(*                                                                         *)
(* Texts are sequences of one-character strings, so that startsWith,       *)
(* includes, slice and concatenation are computed, not assumed.            *)
(***************************************************************************)
EXTENDS Integers, Sequences, FiniteSets, TLC

\* ------------------------------------------------------------------ bounds

\* Provider content chunks delivered to one request, over all its branches.
MaxChunks == 2

\* The same for the three-model request of SpecFast.
MaxFastChunks == 1

\* Longest cumulative text fed to the diffing function in SpecDiff.
MaxLen == 2

\* Number of cumulative texts fed to the diffing function in SpecDiff.
MaxFeeds == 3

\* Stream envelopes the browser reads in one submission in SpecClient.
MaxEnvelopes == 3

\* Reads (OpenAI) or chunks (Gemini) delivered to one call in SpecAdapter.
MaxReads == 2

\* Content deltas and malformed lines delivered to one call in SpecClaude.
MaxClaudeDeltas == 2

\* Turns in the history of one request in SpecHistory.
MaxTurns == 2

\* Turns a history of SpecHistory may have beyond MAX_HISTORY_TURNS.
MaxBeyondWindow == 1

\* ------------------------------------------------------------------- texts

Alphabet == {"a", "b"}

RECURSIVE TextsUpTo(_)
TextsUpTo(n) ==
    IF n = 0 THEN {<<>>}
    ELSE LET shorter == TextsUpTo(n - 1)
         IN  shorter \cup {Append(t, c) : t \in {s \in shorter : Len(s) = n - 1}, c \in Alphabet}

StartsWith(s, p) == Len(p) <= Len(s) /\ SubSeq(s, 1, Len(p)) = p

EndsWith(s, p) == Len(p) <= Len(s) /\ SubSeq(s, Len(s) - Len(p) + 1, Len(s)) = p

Includes(s, p) ==
    \E i \in 0..(Len(s) - Len(p)) : SubSeq(s, i + 1, i + Len(p)) = p

Slice(s, from) == SubSeq(s, from + 1, Len(s))

RECURSIVE Flatten(_)
Flatten(ss) == IF ss = <<>> THEN <<>> ELSE Head(ss) \o Flatten(Tail(ss))

Range(s) == {s[i] : i \in 1..Len(s)}

\* ------------------------------------------------------------ lib/models.ts

AVAILABLE_MODELS ==
    << [id |-> "gemini-3-pro",         provider |-> "gemini", effort |-> "high"],
       [id |-> "gpt-5.2",              provider |-> "openai", effort |-> "medium"],
       [id |-> "gpt-5.2-high",         provider |-> "openai", effort |-> "high"],
       [id |-> "gpt-5.2-pro",          provider |-> "openai", effort |-> "medium"],
       [id |-> "claude-opus-4-6-low",  provider |-> "claude", effort |-> "low"],
       [id |-> "claude-opus-4-6-high", provider |-> "claude", effort |-> "medium"],
       [id |-> "claude-opus-4-6",      provider |-> "claude", effort |-> "max"],
       [id |-> "claude-sonnet-4-6",    provider |-> "claude", effort |-> "max"] >>

NoModel == [id |-> "", provider |-> "none", effort |-> "none"]

getModelByIdUnchecked(id) == [id |-> id, provider |-> "openai", effort |-> "medium"]

\* AVAILABLE_MODELS.find(m => m.id === id); NoModel stands for undefined.
getModelById(id) ==
    IF \E i \in 1..Len(AVAILABLE_MODELS) : AVAILABLE_MODELS[i].id = id
    THEN AVAILABLE_MODELS[CHOOSE i \in 1..Len(AVAILABLE_MODELS) :
                              /\ AVAILABLE_MODELS[i].id = id
                              /\ \A j \in 1..(i - 1) : AVAILABLE_MODELS[j].id # id]
    ELSE NoModel

REASONING_TIERS_fast == << "gemini-3-pro", "gpt-5.2", "claude-sonnet-4-6" >>

\* ------------------------------------------------------------- environment

\* A process.env entry: unset, or one of these raw strings.
EnvRaw == {"unset", "true", " TRUE ", "off", "Off", "maybe"}

\* raw.trim().toLowerCase() on the raw strings above.
TrimLower(raw) ==
    CASE raw = " TRUE " -> "true"
      [] raw = "Off"    -> "off"
      [] OTHER          -> raw

parseBooleanEnv(raw, defaultValue) ==
    IF raw = "unset" THEN defaultValue
    ELSE LET normalized == TrimLower(raw)
         IN  IF normalized \in {"1", "true", "yes", "on"} THEN TRUE
             ELSE IF normalized \in {"0", "false", "no", "off"} THEN FALSE
             ELSE defaultValue

DefaultEnv ==
    [ GEMINI_FORCE_DISABLE_TOOLS     |-> "unset",
      GEMINI_ENABLE_GOOGLE_SEARCH    |-> "unset",
      GEMINI_ENABLE_CODE_EXECUTION   |-> "unset",
      OPENAI_FORCE_DISABLE_TOOLS     |-> "unset",
      OPENAI_ENABLE_WEB_SEARCH       |-> "unset",
      OPENAI_ENABLE_CODE_INTERPRETER |-> "unset",
      OPENAI_MODEL_HIGH              |-> "unset",
      OPENAI_MODEL_PRO               |-> "unset" ]

\* --------------------------------------------------- lib/gemini.ts: diffing

getDeltaAndNextTextResend(incoming, previous) ==
    IF incoming = <<>> THEN [delta |-> <<>>, next |-> previous]
    ELSE [delta |-> incoming, next |-> incoming]

\* The diff with the incoming text as the new baseline where nothing overlaps.
getDeltaAndNextTextRebased(incoming, previous) ==
    IF incoming = <<>> THEN [delta |-> <<>>, next |-> previous]
    ELSE IF previous = <<>> THEN [delta |-> incoming, next |-> incoming]
    ELSE IF StartsWith(incoming, previous)
         THEN [delta |-> Slice(incoming, Len(previous)), next |-> incoming]
    ELSE IF EndsWith(previous, incoming) \/ Includes(previous, incoming)
         THEN [delta |-> <<>>, next |-> previous]
    ELSE [delta |-> incoming, next |-> incoming]

getDeltaAndNextText(incoming, previous) ==
    IF incoming = <<>> THEN [delta |-> <<>>, next |-> previous]
    ELSE IF previous = <<>> THEN [delta |-> incoming, next |-> incoming]
    ELSE IF StartsWith(incoming, previous)
         THEN [delta |-> Slice(incoming, Len(previous)), next |-> incoming]
    ELSE IF EndsWith(previous, incoming) \/ Includes(previous, incoming)
         THEN [delta |-> <<>>, next |-> previous]
    ELSE [delta |-> incoming, next |-> previous \o incoming]

\* ----------------------------------------------- lib/gemini.ts: tool sets

buildGeminiTools(e, forceSearchOnly, disableAll) ==
    IF disableAll \/ parseBooleanEnv(e.GEMINI_FORCE_DISABLE_TOOLS, FALSE) THEN <<>>
    ELSE (IF parseBooleanEnv(e.GEMINI_ENABLE_GOOGLE_SEARCH, TRUE)
          THEN <<"googleSearch">> ELSE <<>>)
         \o
         (IF ~forceSearchOnly /\ parseBooleanEnv(e.GEMINI_ENABLE_CODE_EXECUTION, TRUE)
          THEN <<"codeExecution">> ELSE <<>>)

hasCodeExecutionTool(tools) == "codeExecution" \in Range(tools)

\* Equal sorted signatures: the two lists hold the same tools.
areToolSetsEquivalent(a, b) == Range(a) = Range(b) /\ Len(a) = Len(b)

buildAttemptToolSets(e) ==
    LET primaryTools    == buildGeminiTools(e, FALSE, FALSE)
        searchOnlyTools == buildGeminiTools(e, TRUE, FALSE)
        withSearchOnly  ==
            IF hasCodeExecutionTool(primaryTools)
               /\ ~areToolSetsEquivalent(primaryTools, searchOnlyTools)
            THEN <<primaryTools, searchOnlyTools>>
            ELSE <<primaryTools>>
    IN  IF Len(primaryTools) > 0
           /\ ~\E i \in 1..Len(withSearchOnly) : areToolSetsEquivalent(withSearchOnly[i], <<>>)
        THEN Append(withSearchOnly, <<>>)
        ELSE withSearchOnly

\* An error is modelled by what the code reads of it: whether its message
\* matches the tool-name expression, whether it matches the incompatibility
\* expression, and the HTTP status where there is one.
isGeminiToolCompatibilityError(error) == error.toolHint /\ error.compatHint

\* ------------------------------------------ lib/gemini.ts: the generator

AnswerDelta(t)    == [type |-> "answer_delta", content |-> t]
ReasoningDelta(t) == [type |-> "reasoning_summary_delta", content |-> t]
ReasoningDone     == [type |-> "reasoning_summary_done", content |-> <<>>]

\* The locals of one streamGeminiResponse call. status is the generator's
\* position: awaiting generateContentStream ("calling"), inside the
\* for-await over the response ("streaming"), or ended.
GeminiStart ==
    [ status                       |-> "calling",
      attemptIndex                 |-> 0,
      emittedAnyContentThisAttempt |-> FALSE,
      emittedAnySummary            |-> FALSE,
      previousAnswerText           |-> <<>>,
      previousThoughtText          |-> <<>>,
      streamCompleted              |-> FALSE ]

\* A part without text (executable code, its result) normalizes to ''.
normalizeToolPartText(part) == part.text

\* One iteration of the loop over the parts of a chunk.
GeminiOnPart(st, part) ==
    LET partText == normalizeToolPartText(part)
        previous == IF part.thought THEN st.ad.previousThoughtText
                                    ELSE st.ad.previousAnswerText
        d        == getDeltaAndNextText(partText, previous)
    IN  IF partText = <<>> THEN st
        ELSE [ ad |-> [st.ad EXCEPT
                          !.emittedAnyContentThisAttempt = TRUE,
                          !.previousThoughtText = IF part.thought THEN d.next ELSE @,
                          !.previousAnswerText  = IF part.thought THEN @ ELSE d.next,
                          !.emittedAnySummary   = @ \/ (part.thought /\ d.delta # <<>>)],
               events |-> st.events \o
                          (IF d.delta = <<>> THEN <<>>
                           ELSE IF part.thought THEN <<ReasoningDelta(d.delta)>>
                           ELSE <<AnswerDelta(d.delta)>>),
               emittedFromParts |-> TRUE ]

RECURSIVE GeminiOnParts(_, _)
GeminiOnParts(st, parts) ==
    IF parts = <<>> THEN st
    ELSE GeminiOnParts(GeminiOnPart(st, Head(parts)), Tail(parts))

\* The body of the for-await loop for one chunk of the response.
GeminiOnChunk(ad, chunk) ==
    LET st == GeminiOnParts([ad |-> ad, events |-> <<>>, emittedFromParts |-> FALSE],
                            chunk.parts)
        d  == getDeltaAndNextText(chunk.text, st.ad.previousAnswerText)
    IN  IF ~st.emittedFromParts /\ chunk.text # <<>>
        THEN [ ad |-> [st.ad EXCEPT !.emittedAnyContentThisAttempt = TRUE,
                                    !.previousAnswerText = d.next],
               events |-> st.events \o
                          (IF d.delta = <<>> THEN <<>> ELSE <<AnswerDelta(d.delta)>>) ]
        ELSE [ad |-> st.ad, events |-> st.events]

shouldRetryEvenAfterContent(ad, error, nAttempts) ==
    /\ ad.attemptIndex < nAttempts - 1
    /\ isGeminiToolCompatibilityError(error)

shouldRetryOnAnyError(ad, error, nAttempts) ==
    /\ ad.attemptIndex < nAttempts - 1
    /\ ~ad.emittedAnyContentThisAttempt

shouldRetryWithoutSomeTools(ad, error, nAttempts) ==
    /\ ad.attemptIndex < nAttempts - 1
    /\ ~ad.emittedAnyContentThisAttempt
    /\ isGeminiToolCompatibilityError(error)

GeminiOnErrorRethrow(ad, error, nAttempts) ==
    [ad |-> [ad EXCEPT !.status = "thrown"], events |-> <<>>]

\* The catch of one attempt: the next attempt starts, or the error is rethrown.
GeminiOnError(ad, error, nAttempts) ==
    [ ad |-> IF shouldRetryWithoutSomeTools(ad, error, nAttempts)
             THEN [ad EXCEPT !.attemptIndex = @ + 1,
                             !.emittedAnyContentThisAttempt = FALSE,
                             !.status = "calling"]
             ELSE [ad EXCEPT !.status = "thrown"],
      events |-> <<>> ]

\* generateContentStream resolved: the for-await loop begins.
GeminiOnOpen(ad) == [ad |-> [ad EXCEPT !.status = "streaming"], events |-> <<>>]

\* The response ended: streamCompleted, break, the closing reasoning event.
GeminiOnEnd(ad) ==
    [ ad |-> [ad EXCEPT !.streamCompleted = TRUE, !.status = "returned"],
      events |-> IF ad.emittedAnySummary THEN <<ReasoningDone>> ELSE <<>> ]

\* ------------------------------------------------ lib/openai.ts: tool sets

\* process.env.NAME || fallback: a variable that is unset or '' gives way.
EnvOr(raw, fallback) == IF raw \in {"unset", ""} THEN fallback ELSE raw

\* streamOpenAIResponse's model-name resolution.
resolveOpenAIModelName(e, model) ==
    IF model = "gpt-5.2-high" THEN EnvOr(e.OPENAI_MODEL_HIGH, "gpt-5.2")
    ELSE IF model = "gpt-5.2-pro" THEN EnvOr(e.OPENAI_MODEL_PRO, "gpt-5.2-pro")
    ELSE IF model = "gpt-5-nano" THEN "gpt-5-nano"
    ELSE model

\* name.toLowerCase() on the names the catalogue and the overrides give.
NameLower(name) == IF name = "GPT-5.2-Pro" THEN "gpt-5.2-pro" ELSE name

\* resolved.includes('gpt-5.2'), resolved.includes('gpt-5.2-pro') on the
\* lower-cased name.
IncludesGpt52(name)    == NameLower(name) \in {"gpt-5.2", "gpt-5.2-pro"}
IncludesGpt52Pro(name) == NameLower(name) = "gpt-5.2-pro"

shouldEnableCodeInterpreter(e, requestedModel, resolvedModelName) ==
    IF ~parseBooleanEnv(e.OPENAI_ENABLE_CODE_INTERPRETER, FALSE) THEN FALSE
    ELSE IF requestedModel = "gpt-5.2-pro" THEN FALSE
    ELSE IF requestedModel \in {"gpt-5.2", "gpt-5.2-high"} THEN TRUE
    ELSE IncludesGpt52(resolvedModelName) /\ ~IncludesGpt52Pro(resolvedModelName)

buildOpenAITools(e, resolvedModelName, requestedModel, forceWebOnly) ==
    IF parseBooleanEnv(e.OPENAI_FORCE_DISABLE_TOOLS, FALSE) THEN <<>>
    ELSE (IF parseBooleanEnv(e.OPENAI_ENABLE_WEB_SEARCH, TRUE)
          THEN <<"web_search">> ELSE <<>>)
         \o
         (IF ~forceWebOnly /\ shouldEnableCodeInterpreter(e, requestedModel, resolvedModelName)
          THEN <<"code_interpreter">> ELSE <<>>)

isOpenAIToolCompatibilityError(status, errorBody) ==
    IF status < 400 \/ status >= 500 THEN FALSE
    ELSE errorBody.toolHint /\ errorBody.compatHint

\* ------------------------------------------- lib/openai.ts: the generator

\* The locals of one streamOpenAIResponse call on the Responses path. status:
\* awaiting the first response ("request"), awaiting the web-only retry's
\* response ("retry"), reading the body ("streaming"), or ended. requests
\* counts the calls of requestResponsesStream.
OpenAIStart ==
    [ status             |-> "request",
      requests           |-> 1,
      summaryBuffer      |-> <<>>,
      summaryDoneEmitted |-> FALSE ]

\* value.trim() for a text whose white space is the blank and the line feed.
WhiteSpace == {" ", "\n"}

RECURSIVE TrimStart(_)
TrimStart(t) == IF t # <<>> /\ Head(t) \in WhiteSpace THEN TrimStart(Tail(t)) ELSE t

RECURSIVE TrimEnd(_)
TrimEnd(t) ==
    IF t # <<>> /\ t[Len(t)] \in WhiteSpace THEN TrimEnd(SubSeq(t, 1, Len(t) - 1)) ELSE t

Trim(t) == TrimEnd(TrimStart(t))

\* parts.join('\n')
RECURSIVE JoinLines(_)
JoinLines(parts) ==
    IF parts = <<>> THEN <<>>
    ELSE IF Len(parts) = 1 THEN parts[1]
    ELSE parts[1] \o <<"\n">> \o JoinLines(Tail(parts))

\* The loop of extractReasoningSummaryText over the entries of `summary`.
\* An entry is {text: value}, {type: 'summary_text', summary_text: value}, or
\* something that is not such an object ("junk").
RECURSIVE SummaryParts(_)
SummaryParts(summary) ==
    IF summary = <<>> THEN <<>>
    ELSE LET entry == Head(summary)
             rest  == SummaryParts(Tail(summary))
         IN  IF entry.kind = "text" /\ Trim(entry.value) # <<>>
             THEN <<entry.value>> \o rest
             ELSE IF entry.kind = "summary_text" /\ Trim(entry.value) # <<>>
             THEN <<Trim(entry.value)>> \o rest
             ELSE rest

\* `summary` is <<>> where the payload has no array there.
extractReasoningSummaryText(summary) == Trim(JoinLines(SummaryParts(summary)))

\* The retry decision on the status alone, without the two keyword tests.
shouldRetryOnAnyClientError(e, model, response) ==
    LET modelName    == resolveOpenAIModelName(e, model)
        initialTools == buildOpenAITools(e, modelName, model, FALSE)
        webOnlyTools == buildOpenAITools(e, modelName, model, TRUE)
    IN  /\ response.status >= 400 /\ response.status < 500
        /\ Len(webOnlyTools) > 0
        /\ ~areToolSetsEquivalent(initialTools, webOnlyTools)

shouldRetryWebOnly(e, model, response) ==
    LET modelName    == resolveOpenAIModelName(e, model)
        initialTools == buildOpenAITools(e, modelName, model, FALSE)
        webOnlyTools == buildOpenAITools(e, modelName, model, TRUE)
    IN  /\ isOpenAIToolCompatibilityError(response.status, response.body)
        /\ Len(webOnlyTools) > 0
        /\ ~areToolSetsEquivalent(initialTools, webOnlyTools)

ResponseOk(response) == response.status >= 200 /\ response.status <= 299

\* requestResponsesStream resolved with `response`.
OpenAIOnResponse(ad, response, e, model) ==
    [ ad |-> IF ResponseOk(response)
             THEN [ad EXCEPT !.status = IF response.hasBody THEN "streaming" ELSE "returned"]
             ELSE IF ad.status = "request" /\ shouldRetryWebOnly(e, model, response)
             THEN [ad EXCEPT !.status = "retry", !.requests = @ + 1]
             ELSE [ad EXCEPT !.status = "thrown"],
      events |-> <<>> ]

\* The summary paths without the summaryDoneEmitted flag.
OpenAISummaryPathUnflagged(ad, text, take, closeAlways) ==
    LET adopt == take /\ Trim(ad.summaryBuffer) = <<>>
        buf   == IF adopt THEN text ELSE ad.summaryBuffer
        done  == closeAlways \/ Trim(buf) # <<>>
    IN  [ ad |-> [ad EXCEPT !.summaryBuffer = buf,
                            !.summaryDoneEmitted = @ \/ done],
          events |-> (IF adopt THEN <<ReasoningDelta(text)>> ELSE <<>>)
                     \o (IF done THEN <<ReasoningDone>> ELSE <<>>) ]

\* The summary paths that carry a full text: part.done, text.done,
\* output_item.done and completed. `take` says whether the text is adopted
\* when the buffer is still blank, `closeAlways` whether the done event is due
\* whatever the buffer holds (otherwise only when it is not blank).
OpenAISummaryPath(ad, text, take, closeAlways) ==
    LET adopt == take /\ Trim(ad.summaryBuffer) = <<>>
        buf   == IF adopt THEN text ELSE ad.summaryBuffer
        done  == (closeAlways \/ Trim(buf) # <<>>) /\ ~ad.summaryDoneEmitted
    IN  [ ad |-> [ad EXCEPT !.summaryBuffer = buf,
                            !.summaryDoneEmitted = @ \/ done],
          events |-> (IF adopt THEN <<ReasoningDelta(text)>> ELSE <<>>)
                     \o (IF done THEN <<ReasoningDone>> ELSE <<>>) ]

\* One data line of the body. data.type is the event type, data.text its
\* payload (delta, part.text or text), data.chat the Chat Completions delta
\* content, data.hasReasoningItem whether the item (of output_item.done) or
\* an item of the response's output (of completed) has type 'reasoning', and
\* data.summary that item's summary.
OpenAIOnData(ad, data) ==
    LET chat == IF data.chat # <<>> THEN <<AnswerDelta(data.chat)>> ELSE <<>>
        summaryText == IF data.hasReasoningItem
                       THEN extractReasoningSummaryText(data.summary) ELSE <<>>
        rest ==
            IF data.type = "malformed" THEN [ad |-> ad, events |-> <<>>]
            ELSE IF data.type = "response.output_text.delta" /\ data.text # <<>>
            THEN [ad |-> ad, events |-> <<AnswerDelta(data.text)>>]
            ELSE IF data.type = "response.reasoning_summary_text.delta" /\ data.text # <<>>
            THEN [ ad |-> [ad EXCEPT !.summaryBuffer = @ \o data.text],
                   events |-> <<ReasoningDelta(data.text)>> ]
            ELSE IF data.type = "response.reasoning_summary_part.done" /\ data.text # <<>>
            THEN OpenAISummaryPath(ad, data.text, TRUE, TRUE)
            ELSE IF data.type = "response.reasoning_summary_text.done"
            THEN OpenAISummaryPath(ad, data.text, Trim(data.text) # <<>>, TRUE)
            ELSE IF data.type = "response.output_item.done" /\ data.hasReasoningItem
            THEN OpenAISummaryPath(ad, summaryText, summaryText # <<>>, TRUE)
            ELSE IF data.type = "response.completed" /\ ~ad.summaryDoneEmitted
            THEN OpenAISummaryPath(ad, summaryText, summaryText # <<>>, FALSE)
            ELSE [ad |-> ad, events |-> <<>>]
    IN  IF data.type = "malformed" THEN rest
        ELSE [ad |-> rest.ad, events |-> chat \o rest.events]

\* reader.read() returned done.
OpenAIOnEnd(ad) == [ad |-> [ad EXCEPT !.status = "returned"], events |-> <<>>]

\* fetch or reader.read() rejected.
OpenAIOnError(ad) == [ad |-> [ad EXCEPT !.status = "thrown"], events |-> <<>>]

\* -------------------------------------------------- lib/claude.ts (absent)

\* streamClaudeResponse as the route sees it: a generator of the three event
\* types that ends by returning or by throwing.
ClaudeStart == [status |-> "streaming", sawReasoning |-> FALSE, doneEmitted |-> FALSE]

ClaudeOnEvent(ad, ev) ==
    [ ad |-> [ad EXCEPT !.sawReasoning = @ \/ ev.type = "reasoning_summary_delta"],
      events |-> <<ev>> ]

ClaudeOnEnd(ad) ==
    [ ad |-> [ad EXCEPT !.status = "returned",
                        !.doneEmitted = @ \/ ad.sawReasoning],
      events |-> IF ad.sawReasoning /\ ~ad.doneEmitted THEN <<ReasoningDone>> ELSE <<>> ]

ClaudeOnError(ad) == [ad |-> [ad EXCEPT !.status = "thrown"], events |-> <<>>]

\* ------------------------------------------------------------------ state

VARIABLES
    request,        \* the parsed body of the POST to /api/ask
    env,            \* process.env, as far as the adapters read it
    response,       \* what POST returned: status 0 while it has not
    wire,           \* the envelopes written to the TransformStream, in order
    branch,         \* one record per entry of request.models (modelPromises)
    pm,             \* processModels: "idle", "running", "completed", "rejected"
    closed,         \* writer.close() was called
    clientAborted,  \* the client went away: the readable side is cancelled
    readAfterAbort, \* OpenAI or Gemini delivered to its adapter after the client went away
    chunksUsed,     \* provider content chunks delivered so far
    budget,         \* provider content chunks the providers will deliver
    \* SpecDiff: one stream of cumulative texts through getDeltaAndNextText
    previous,       \* the baseline kept between calls (previousAnswerText)
    incomings,      \* the texts fed so far
    deltas,         \* the deltas returned so far
    \* SpecClient: one call of submitQuestion
    selectedModels, \* opts.selectedModels
    step,           \* where submitQuestion is: "idle", "fetch", "read", "ended"
    modelStatus,    \* the local record modelStatus
    answerByModel,  \* the local record answerByModel
    reasoningByModel, \* the local record reasoningByModel
    answers,        \* the hook's React state `answers`, by model id
    stored,         \* the question's answers in the session store, by model id
    received,       \* the envelopes read from the response so far
    outcome,        \* how the call ended: "none", "completed", "aborted", "failed"
    \* SpecAdapter: one call of streamOpenAIResponse or streamGeminiResponse
    call,           \* which adapter, for which model id
    ast,            \* the generator's locals
    yields,         \* the events it has yielded, in order
    feed,           \* what the provider has delivered to it, in order
    sent,           \* the tool set of every request it has sent, in order
    shadow,         \* the same call fed the same reads without their malformed lines
    stream,         \* SpecBytes: the characters the provider sends, in order
    buffer,         \* SpecBytes: the text read and not yet ended by a line feed
    \* SpecHistory: the history of one request, rebuilt for one model
    history,        \* the `history` of the request body
    rebuilt,        \* the history messages built for the call's model
    \* the specifications of single functions and of the selection sliders
    args,           \* the arguments of the call: the function's name and inputs
    result,         \* what the call returned; "none" while it has not
    \* the browser with submissions in several sessions (SpecSubmissions)
    currentSessionId,   \* the session the page shows
    currentQuestionId,  \* the question whose live answers the page shows; 0 for null
    submissions,        \* each submitQuestion call: its position and its locals
    sessions,           \* the sessions of SessionContext, with their questions
    generatingSessionIds,   \* the hook's list of sessions with a submission in flight
    abortControllers,   \* abortControllersRef: per session, the submission registered
    storage,            \* localStorage: the sessions and the current session id saved
    lastLoad,           \* what the last hydration read, until the state changes again
    \* SpecDrag: useDragDrop beside computeDragState
    dragCounter,        \* dragCounter.current of the hook
    isDragging,         \* the hook's isDragging state
    computed,           \* computeDragState folded over the same events
    dragEvents          \* the drag events so far, in order

rvars == << request, env, response, wire, branch, pm, closed, clientAborted,
            readAfterAbort, chunksUsed, budget >>

dvars == << previous, incomings, deltas >>

cvars == << selectedModels, step, modelStatus, answerByModel, reasoningByModel,
            answers, stored, received, outcome >>

avars == << call, ast, yields, feed, sent, shadow, stream, buffer >>

hvars == << history, rebuilt >>

pvars == << args, result >>

svars == << currentSessionId, currentQuestionId, submissions, sessions,
            generatingSessionIds, abortControllers, storage, lastLoad >>

gvars == << dragCounter, isDragging, computed, dragEvents >>

vars == << rvars, dvars, cvars, avars, hvars, pvars, svars, gvars >>

\* --------------------------------------------------- the provider's side

\* What generateContentStream may deliver: a chunk without text, one part
\* with text (answer or thought, cumulative), the SDK's chunk.text alone, or
\* a part without text (code execution) beside chunk.text.
GeminiChunks ==
    { [parts |-> <<>>, text |-> <<>>],
      [parts |-> <<[text |-> <<"a">>, thought |-> FALSE]>>,      text |-> <<>>],
      [parts |-> <<[text |-> <<"a", "b">>, thought |-> FALSE]>>, text |-> <<>>],
      [parts |-> <<[text |-> <<"a">>, thought |-> TRUE]>>,       text |-> <<>>],
      [parts |-> <<[text |-> <<>>, thought |-> FALSE]>>,         text |-> <<"a">>] }

\* Data lines of the Responses stream: an answer delta, a summary delta, a
\* summary text.done without text, a completed response carrying a summary,
\* and a line that is not JSON.
DataLine(type, text) ==
    [type |-> type, text |-> text, chat |-> <<>>, hasReasoningItem |-> FALSE, summary |-> <<>>]

ItemLine(type, summary) ==
    [type |-> type, text |-> <<>>, chat |-> <<>>, hasReasoningItem |-> TRUE, summary |-> summary]

OpenAIData ==
    { DataLine("response.output_text.delta", <<"a">>),
      DataLine("response.reasoning_summary_text.delta", <<"a">>),
      DataLine("response.reasoning_summary_text.done", <<>>),
      ItemLine("response.completed", <<[kind |-> "text", value |-> <<"a">>]>>),
      DataLine("malformed", <<>>) }

ClaudeEvents == {AnswerDelta(<<"a">>), ReasoningDelta(<<"a">>)}

\* Errors by what the compatibility heuristics read of the message.
ProviderErrors ==
    { [toolHint |-> TRUE,  compatHint |-> TRUE],
      [toolHint |-> TRUE,  compatHint |-> FALSE],
      [toolHint |-> FALSE, compatHint |-> FALSE] }

OpenAIResponses ==
    { [status |-> 200, hasBody |-> TRUE,  body |-> [toolHint |-> FALSE, compatHint |-> FALSE]],
      [status |-> 200, hasBody |-> FALSE, body |-> [toolHint |-> FALSE, compatHint |-> FALSE]],
      [status |-> 400, hasBody |-> TRUE,  body |-> [toolHint |-> TRUE,  compatHint |-> TRUE]],
      [status |-> 400, hasBody |-> TRUE,  body |-> [toolHint |-> FALSE, compatHint |-> TRUE]],
      [status |-> 500, hasBody |-> TRUE,  body |-> [toolHint |-> TRUE,  compatHint |-> TRUE]] }

\* ----------------------------------------------------------- the requests

\* The model lists: none, one model of each provider, an id that is not in
\* AVAILABLE_MODELS (alone, twice and beside a known one), a known id twice,
\* and two providers side by side.
ModelLists ==
    { <<>>,
      <<"gemini-3-pro">>,
      <<"gpt-5.2">>,
      <<"claude-sonnet-4-6">>,
      <<"no-such-model">>,
      <<"no-such-model", "no-such-model">>,
      <<"gpt-5.2", "no-such-model">>,
      <<"gpt-5.2", "gpt-5.2">>,
      <<"gemini-3-pro", "gpt-5.2">>,
      <<"claude-sonnet-4-6", "gemini-3-pro">> }

QuestionOnly == [question |-> <<"q">>, images |-> 0, pdfs |-> 0]

RequestContents ==
    { [question |-> <<>>, images |-> 0, pdfs |-> 0],
      QuestionOnly,
      [question |-> <<>>, images |-> 1, pdfs |-> 0],
      [question |-> <<>>, images |-> 0, pdfs |-> 1] }

AskRequest(c, defined, m) ==
    [ question |-> c.question, images |-> c.images, pdfs |-> c.pdfs,
      modelsDefined |-> defined, models |-> m ]

\* Every content with no `models` key, with an empty list and with one model;
\* a question with every model list.
Requests ==
    {AskRequest(c, FALSE, <<>>) : c \in RequestContents}
    \cup {AskRequest(c, TRUE, m) : c \in RequestContents, m \in {<<>>, <<"claude-sonnet-4-6">>}}
    \cup {AskRequest(QuestionOnly, TRUE, m) : m \in ModelLists}

\* The Fast tier: the three providers side by side.
FastRequests == {AskRequest(QuestionOnly, TRUE, REASONING_TIERS_fast)}

\* The defaults, and an environment where the OpenAI code interpreter is on
\* and the Gemini tools are off.
RouterEnvs ==
    { DefaultEnv,
      [DefaultEnv EXCEPT !.OPENAI_ENABLE_CODE_INTERPRETER = " TRUE ",
                         !.GEMINI_FORCE_DISABLE_TOOLS = "true"] }

\* ------------------------------------------- app/api/ask/route.ts: branches

Envelope(type, modelId, content, b) ==
    [type |-> type, modelId |-> modelId, content |-> content, branch |-> b]

\* The loop body that writes no answer chunk once reasoning has started.
RouterOnEventAnswerFirst(st, event, modelId, b) ==
    IF event.type = "answer_delta" /\ event.content # <<>>
    THEN IF st.rsStarted THEN st
         ELSE [st EXCEPT !.out = Append(@, [type |-> "chunk", modelId |-> modelId,
                                            content |-> event.content, branch |-> b])]
    ELSE IF event.type = "reasoning_summary_delta" /\ event.content # <<>>
    THEN [st EXCEPT
            !.rsStarted = TRUE,
            !.out = @ \o (IF st.rsStarted THEN <<>>
                          ELSE << [type |-> "reasoning_summary_start", modelId |-> modelId,
                                   content |-> <<>>, branch |-> b] >>)
                      \o << [type |-> "reasoning_summary_chunk", modelId |-> modelId,
                              content |-> event.content, branch |-> b] >>]
    ELSE IF event.type = "reasoning_summary_done" /\ st.rsStarted /\ ~st.rsDone
    THEN [st EXCEPT !.rsDone = TRUE,
                    !.out = Append(@, [type |-> "reasoning_summary_done", modelId |-> modelId,
                                       content |-> <<>>, branch |-> b])]
    ELSE st

\* The body of the for-await loop over the adapter's events (the same in the
\* three provider arms). st holds the arm's two flags and what it wrote.
RouterOnEvent(st, event, modelId, b) ==
    IF event.type = "answer_delta" /\ event.content # <<>>
    THEN [st EXCEPT !.out = Append(@, Envelope("chunk", modelId, event.content, b))]
    ELSE IF event.type = "reasoning_summary_delta" /\ event.content # <<>>
    THEN [st EXCEPT
            !.rsStarted = TRUE,
            !.out = @ \o (IF st.rsStarted THEN <<>>
                          ELSE <<Envelope("reasoning_summary_start", modelId, <<>>, b)>>)
                      \o <<Envelope("reasoning_summary_chunk", modelId, event.content, b)>>]
    ELSE IF event.type = "reasoning_summary_done" /\ st.rsStarted /\ ~st.rsDone
    THEN [st EXCEPT !.rsDone = TRUE,
                    !.out = Append(@, Envelope("reasoning_summary_done", modelId, <<>>, b))]
    ELSE st

RECURSIVE RouterOnEvents(_, _, _, _)
RouterOnEvents(st, events, modelId, b) ==
    IF events = <<>> THEN st
    ELSE RouterOnEvents(RouterOnEvent(st, Head(events), modelId, b), Tail(events), modelId, b)

\* After the loop, `done` alone.
RouterAfterLoopDoneOnly(st, modelId, b) ==
    << [type |-> "done", modelId |-> modelId, content |-> <<>>, branch |-> b] >>

\* After the loop: the reasoning bracket is closed if it is open, then `done`.
RouterAfterLoop(st, modelId, b) ==
    (IF st.rsStarted /\ ~st.rsDone
     THEN <<Envelope("reasoning_summary_done", modelId, <<>>, b)>> ELSE <<>>)
    \o <<Envelope("done", modelId, <<>>, b)>>

\* The catch of the branch: one `error` envelope.
RouterOnThrow(modelId, b) == <<Envelope("error", modelId, <<"adapter error">>, b)>>

\* What a branch writes for one step of its adapter.
BranchOutput(br, res, b) ==
    LET st == RouterOnEvents([rsStarted |-> br.rsStarted, rsDone |-> br.rsDone, out |-> <<>>],
                             res.events, br.modelId, b)
    IN  [ rsStarted |-> st.rsStarted,
          rsDone    |-> st.rsDone,
          out       |-> IF res.ad.status = "thrown" THEN st.out \o RouterOnThrow(br.modelId, b)
                        ELSE IF res.ad.status = "returned"
                        THEN st.out \o RouterAfterLoop(st, br.modelId, b)
                        ELSE st.out ]

\* writer.write rejects once the readable side is cancelled. Inside the try
\* that leads to the catch, whose own write rejects too: the branch's promise
\* rejects.
WriteFails(out) == clientAborted /\ out # <<>>

\* The first synchronous part of one branch: getModelById and the first write.
SpawnBranch(modelId, b) ==
    LET modelConfig == getModelById(modelId)
    IN  [ modelId   |-> modelId,
          provider  |-> modelConfig.provider,
          pc        |-> IF modelConfig = NoModel THEN "fulfilled" ELSE "running",
          rsStarted |-> FALSE,
          rsDone    |-> FALSE,
          ad        |-> IF modelConfig.provider = "gemini" THEN GeminiStart
                        ELSE IF modelConfig.provider = "openai" THEN OpenAIStart
                        ELSE IF modelConfig.provider = "claude" THEN ClaudeStart
                        ELSE [status |-> "none"],
          evs       |-> <<>>,
          fails     |-> <<>>,
          yielded   |-> FALSE ]

FirstWrite(modelId, b) ==
    IF getModelById(modelId) = NoModel
    THEN Envelope("error", modelId, <<"Model not found">>, b)
    ELSE Envelope("start", modelId, <<>>, b)

AfterStepFailFast(b, nb) ==
    [c \in DOMAIN branch |->
        IF c = b THEN nb
        ELSE IF nb.ad.status = "thrown" /\ branch[c].pc = "running"
        THEN [branch[c] EXCEPT !.pc = "fulfilled"]
        ELSE branch[c]]

\* modelPromises after a step of branch b: the arrow of each entry has its
\* own try/catch and its own locals, so only b's entry changes.
AfterStep(b, nb) == [branch EXCEPT ![b] = nb]

\* One step of branch b's adapter, and what the branch does with its events.
\* failure is <<>> or one record describing the failure the adapter met.
Advance(b, res, failure) ==
    LET br == branch[b]
        o  == BranchOutput(br, res, b)
    IN  /\ wire' = IF WriteFails(o.out) THEN wire ELSE wire \o o.out
        /\ branch' = AfterStep(b,
              [br EXCEPT !.ad        = res.ad,
                         !.rsStarted = o.rsStarted,
                         !.rsDone    = o.rsDone,
                         !.pc        = IF WriteFails(o.out) THEN "rejected"
                                       ELSE IF res.ad.status \in {"thrown", "returned"}
                                       THEN "fulfilled"
                                       ELSE "running",
                         !.evs       = @ \o res.events,
                         !.fails     = @ \o failure,
                         !.yielded   = IF failure # <<>> /\ failure[1].retried THEN FALSE
                                       ELSE @ \/ res.events # <<>>])
        /\ readAfterAbort' = (readAfterAbort
                               \/ (/\ clientAborted
                                   /\ br.provider \in {"openai", "gemini"}
                                   /\ res.ad.status # "thrown"))
        /\ UNCHANGED << request, env, response, pm, closed, clientAborted, budget >>
        /\ UNCHANGED << dvars, cvars, avars, hvars, pvars, svars, gvars >>

Failure(br, attempt, compat, res) ==
    << [ attempt      |-> attempt,
         compat       |-> compat,
         afterContent |-> br.yielded,
         retried      |-> res.ad.status \notin {"thrown", "returned"} ] >>

Running(b, provider) ==
    /\ pm # "idle"
    /\ b \in DOMAIN branch
    /\ branch[b].pc = "running"
    /\ branch[b].provider = provider

\* ---------------------------------------------------------------- actions

\* POST up to its return: validation, then processModels() up to the first
\* await of every branch (models.map runs each async arrow synchronously up
\* to its first writer.write).
PostStatus(req) ==
    IF ~req.modelsDefined THEN 500       \* models.join(...) in the log line throws
    ELSE IF req.question = <<>> /\ req.images = 0 /\ req.pdfs = 0 THEN 400
    ELSE IF Len(req.models) = 0 THEN 400
    ELSE 200

POST ==
    /\ response.status = 0
    /\ LET status == PostStatus(request)
       IN  IF status = 200
           THEN /\ response' = [status |-> 200, contentType |-> "text/event-stream"]
                /\ pm' = "running"
                /\ branch' = [b \in 1..Len(request.models) |-> SpawnBranch(request.models[b], b)]
                /\ wire' = [b \in 1..Len(request.models) |-> FirstWrite(request.models[b], b)]
           ELSE /\ response' = [status |-> status, contentType |-> "application/json"]
                /\ UNCHANGED << pm, branch, wire >>
    /\ UNCHANGED << request, env, closed, clientAborted, readAfterAbort, chunksUsed, budget >>
    /\ UNCHANGED << dvars, cvars, avars, hvars, pvars, svars, gvars >>

GeminiStep(b) ==
    /\ Running(b, "gemini")
    /\ LET br == branch[b]
           ad == br.ad
           n  == Len(buildAttemptToolSets(env))
       IN  \/ /\ ad.status = "calling"
              /\ Advance(b, GeminiOnOpen(ad), <<>>)
              /\ UNCHANGED chunksUsed
           \/ /\ ad.status = "streaming"
              /\ chunksUsed < budget
              /\ \E chunk \in GeminiChunks : Advance(b, GeminiOnChunk(ad, chunk), <<>>)
              /\ chunksUsed' = chunksUsed + 1
           \/ /\ ad.status = "streaming"
              /\ Advance(b, GeminiOnEnd(ad), <<>>)
              /\ UNCHANGED chunksUsed
           \/ /\ \E error \in ProviderErrors :
                    LET res == GeminiOnError(ad, error, n)
                    IN  Advance(b, res,
                                Failure(br, ad.attemptIndex,
                                        isGeminiToolCompatibilityError(error), res))
              /\ UNCHANGED chunksUsed

OpenAIStep(b) ==
    /\ Running(b, "openai")
    /\ LET br == branch[b]
           ad == br.ad
       IN  \/ /\ ad.status \in {"request", "retry"}
              /\ \E r \in OpenAIResponses :
                    LET res == OpenAIOnResponse(ad, r, env, br.modelId)
                    IN  Advance(b, res,
                                IF ResponseOk(r) THEN <<>>
                                ELSE Failure(br, ad.requests,
                                             isOpenAIToolCompatibilityError(r.status, r.body),
                                             res))
              /\ UNCHANGED chunksUsed
           \/ /\ ad.status = "streaming"
              /\ chunksUsed < budget
              /\ \E data \in OpenAIData : Advance(b, OpenAIOnData(ad, data), <<>>)
              /\ chunksUsed' = chunksUsed + 1
           \/ /\ ad.status = "streaming"
              /\ Advance(b, OpenAIOnEnd(ad), <<>>)
              /\ UNCHANGED chunksUsed
           \/ /\ LET res == OpenAIOnError(ad)
                 IN  Advance(b, res, Failure(br, ad.requests, FALSE, res))
              /\ UNCHANGED chunksUsed

ClaudeStep(b) ==
    /\ Running(b, "claude")
    /\ LET br == branch[b]
           ad == br.ad
       IN  \/ /\ chunksUsed < budget
              /\ \E ev \in ClaudeEvents : Advance(b, ClaudeOnEvent(ad, ev), <<>>)
              /\ chunksUsed' = chunksUsed + 1
           \/ /\ Advance(b, ClaudeOnEnd(ad), <<>>)
              /\ UNCHANGED chunksUsed
           \/ /\ LET res == ClaudeOnError(ad)
                 IN  Advance(b, res, Failure(br, 1, FALSE, res))
              /\ UNCHANGED chunksUsed

AnyFulfilled == \E b \in DOMAIN branch : branch[b].pc = "fulfilled"

\* Promise.all(modelPromises) resolves when every promise has.
AllFulfilled == \A b \in DOMAIN branch : branch[b].pc = "fulfilled"

\* Promise.all resolved: `complete`, then writer.close().
Complete ==
    /\ pm = "running"
    /\ AllFulfilled
    /\ IF clientAborted
       THEN pm' = "rejected" /\ UNCHANGED << wire, closed >>
       ELSE /\ pm' = "completed"
            /\ wire' = Append(wire, Envelope("complete", "", <<>>, 0))
            /\ closed' = TRUE
    /\ UNCHANGED << request, env, response, branch, clientAborted, readAfterAbort,
                    chunksUsed, budget >>
    /\ UNCHANGED << dvars, cvars, avars, hvars, pvars, svars, gvars >>

\* Promise.all rejected: processModels ends with an unhandled rejection; the
\* other branches are not told.
PromiseAllRejects ==
    /\ pm = "running"
    /\ \E b \in DOMAIN branch : branch[b].pc = "rejected"
    /\ pm' = "rejected"
    /\ UNCHANGED << request, env, response, wire, branch, closed, clientAborted,
                    readAfterAbort, chunksUsed, budget >>
    /\ UNCHANGED << dvars, cvars, avars, hvars, pvars, svars, gvars >>

\* The client aborts its fetch (or disconnects) while the stream is open.
ClientAbort ==
    /\ response.status = 200
    /\ ~closed
    /\ ~clientAborted
    /\ clientAborted' = TRUE
    /\ UNCHANGED << request, env, response, wire, branch, pm, closed, readAfterAbort,
                    chunksUsed, budget >>
    /\ UNCHANGED << dvars, cvars, avars, hvars, pvars, svars, gvars >>

\* The diffing function and the browser are not part of the route.
DiffIdle == previous = <<>> /\ incomings = <<>> /\ deltas = <<>>

ClientIdle ==
    /\ selectedModels = <<>>
    /\ step = "idle"
    /\ modelStatus = <<>>
    /\ answerByModel = <<>>
    /\ reasoningByModel = <<>>
    /\ answers = <<>>
    /\ stored = <<>>
    /\ received = <<>>
    /\ outcome = "none"

AdapterIdle ==
    /\ call = [kind |-> "none", model |-> ""]
    /\ ast = [status |-> "none"]
    /\ yields = <<>>
    /\ feed = <<>>
    /\ sent = <<>>
    /\ shadow = [ad |-> [status |-> "none"], yields |-> <<>>]
    /\ stream = <<>>
    /\ buffer = <<>>

SubmissionsIdle ==
    /\ currentSessionId = 0
    /\ currentQuestionId = 0
    /\ submissions = <<>>
    /\ sessions = <<>>
    /\ generatingSessionIds = <<>>
    /\ abortControllers = <<>>
    /\ storage = <<>>
    /\ lastLoad = <<>>

DragIdle ==
    /\ dragCounter = 0
    /\ isDragging = FALSE
    /\ computed = [counter |-> 0, isDragging |-> FALSE]
    /\ dragEvents = <<>>

PureIdle ==
    /\ args = [function |-> "none"]
    /\ result = [status |-> "none"]

HistoryIdle ==
    /\ history = <<>>
    /\ rebuilt = [status |-> "none", sanitized |-> <<>>, messages |-> <<>>]

RouterIdle ==
    /\ request = AskRequest(QuestionOnly, TRUE, <<>>)
    /\ env = DefaultEnv
    /\ response = [status |-> 0, contentType |-> "none"]
    /\ wire = <<>>
    /\ branch = <<>>
    /\ pm = "idle"
    /\ closed = FALSE
    /\ clientAborted = FALSE
    /\ readAfterAbort = FALSE
    /\ chunksUsed = 0
    /\ budget = 0

Init ==
    /\ request \in Requests
    /\ env \in RouterEnvs
    /\ response = [status |-> 0, contentType |-> "none"]
    /\ wire = <<>>
    /\ branch = <<>>
    /\ pm = "idle"
    /\ closed = FALSE
    /\ clientAborted = FALSE
    /\ readAfterAbort = FALSE
    /\ chunksUsed = 0
    /\ budget = MaxChunks
    /\ DiffIdle
    /\ ClientIdle
    /\ HistoryIdle
    /\ PureIdle
    /\ SubmissionsIdle
    /\ DragIdle
    /\ AdapterIdle

Next ==
    \/ POST
    \/ \E b \in DOMAIN branch : GeminiStep(b)
    \/ \E b \in DOMAIN branch : OpenAIStep(b)
    \/ \E b \in DOMAIN branch : ClaudeStep(b)
    \/ Complete
    \/ PromiseAllRejects
    \/ ClientAbort

Spec == Init /\ [][Next]_vars

\* The same route serving the Fast tier's three models, default environment.
InitFast ==
    /\ request \in FastRequests
    /\ env = DefaultEnv
    /\ response = [status |-> 0, contentType |-> "none"]
    /\ wire = <<>>
    /\ branch = <<>>
    /\ pm = "idle"
    /\ closed = FALSE
    /\ clientAborted = FALSE
    /\ readAfterAbort = FALSE
    /\ chunksUsed = 0
    /\ budget = MaxFastChunks
    /\ DiffIdle
    /\ ClientIdle
    /\ HistoryIdle
    /\ PureIdle
    /\ SubmissionsIdle
    /\ DragIdle
    /\ AdapterIdle

SpecFast == InitFast /\ [][Next]_vars

\* The continuation of Promise.all is a microtask: once every branch has
\* settled it runs.
SpecLive == Spec /\ WF_vars(Complete)

\* ------------------------------------- SpecDiff: the diffing function alone

\* One more cumulative text goes through getDeltaAndNextText, the baseline
\* carried over as the loop over a response's parts carries it.
DiffFeed(incoming) ==
    /\ Len(incomings) < MaxFeeds
    /\ LET d == getDeltaAndNextText(incoming, previous)
       IN  /\ previous' = d.next
           /\ deltas' = Append(deltas, d.delta)
    /\ incomings' = Append(incomings, incoming)
    /\ UNCHANGED << rvars, cvars, avars, hvars, pvars, svars, gvars >>

InitDiff ==
    RouterIdle /\ DiffIdle /\ ClientIdle /\ AdapterIdle /\ HistoryIdle /\ PureIdle /\ SubmissionsIdle
    /\ DragIdle

NextDiff == \E incoming \in TextsUpTo(MaxLen) : DiffFeed(incoming)

SpecDiff == InitDiff /\ [][NextDiff]_vars

\* ------------------------------ SpecClient: hooks, useQuestionSubmit

\* The model ids the browser may meet: two it can select, one it did not.
ClientIds == {"gemini-3-pro", "gpt-5.2", "claude-sonnet-4-6"}

ClientModelLists == { <<>>, <<"gpt-5.2">>, <<"gemini-3-pro", "gpt-5.2">> }

\* The data lines the response may carry, as the read loop parses them.
ClientEnvelopes ==
    { [type |-> t, modelId |-> m, content |-> <<>>, error |-> <<>>] :
        t \in {"start", "reasoning_summary_start", "reasoning_summary_done", "done"},
        m \in ClientIds }
    \cup { [type |-> t, modelId |-> m, content |-> <<"a">>, error |-> <<>>] :
             t \in {"chunk", "reasoning_summary_chunk"}, m \in ClientIds }
    \cup { [type |-> "error", modelId |-> m, content |-> <<>>, error |-> <<"e">>] :
             m \in ClientIds }

initialAnswers ==
    [ m \in Range(selectedModels) |->
        [content |-> <<>>, reasoningSummary |-> <<>>, status |-> "pending", error |-> <<>>] ]

\* { ...a, ...update }
Merge(a, update) ==
    [k \in DOMAIN a |-> IF k \in DOMAIN update THEN update[k] ELSE a[k]]

\* SessionContext.updateAnswer on the question's answers.
updateAnswer(st, modelId, update) ==
    [a \in DOMAIN st |-> IF a = modelId THEN Merge(st[a], update) ELSE st[a]]

\* setAnswers(prev => prev.map(a => a.modelId === modelId ? {...a, ...update} : a))
setAnswer(as, modelId, update) ==
    [a \in DOMAIN as |-> IF a = modelId THEN Merge(as[a], update) ELSE as[a]]

Terminal(status) == status \in {"done", "error"}

\* The catch of submitQuestion for an error that is not an AbortError.
CatchOtherError(errorMessage) ==
    [ answers |->
        [a \in DOMAIN answers |->
            IF Terminal(answers[a].status) THEN answers[a]
            ELSE Merge(answers[a], [status |-> "error", error |-> errorMessage])],
      modelStatus |->
        [m \in DOMAIN modelStatus |->
            IF m \in Range(selectedModels) /\ ~Terminal(modelStatus[m])
            THEN "error" ELSE modelStatus[m]],
      stored |->
        [a \in DOMAIN stored |->
            IF Terminal(modelStatus[a]) THEN stored[a]
            ELSE Merge(stored[a], [status |-> "error", error |-> errorMessage,
                                   content |-> answerByModel[a],
                                   reasoningSummary |-> reasoningByModel[a]])] ]

CatchAbortErrorAsFailure == CatchOtherError(<<"e">>)

\* The catch of submitQuestion for the AbortError of controller.abort().
CatchAbortError ==
    [ answers |->
        [a \in DOMAIN answers |->
            IF answers[a].status \in {"streaming", "pending"}
            THEN Merge(answers[a], [status |-> "done"])
            ELSE answers[a]],
      modelStatus |->
        [m \in DOMAIN modelStatus |->
            IF m \in Range(selectedModels) /\ ~Terminal(modelStatus[m])
            THEN "done" ELSE modelStatus[m]],
      stored |->
        [a \in DOMAIN stored |->
            IF Terminal(modelStatus[a]) THEN stored[a]
            ELSE Merge(stored[a], [status |-> "done",
                                   content |-> answerByModel[a],
                                   reasoningSummary |-> reasoningByModel[a]])] ]

\* submitQuestion up to its fetch: the guard, the initial answers, the locals.
Submit ==
    /\ step = "idle"
    /\ selectedModels # <<>>
    /\ step' = "fetch"
    /\ answers' = initialAnswers
    /\ stored' = initialAnswers
    /\ modelStatus' = [m \in ClientIds |->
                          IF m \in Range(selectedModels) THEN "pending" ELSE "unset"]
    /\ answerByModel' = [m \in ClientIds |-> <<>>]
    /\ reasoningByModel' = [m \in ClientIds |-> <<>>]
    /\ UNCHANGED << selectedModels, received, outcome, rvars, dvars, avars, hvars, pvars, svars, gvars >>

Caught(c, how) ==
    /\ answers' = c.answers
    /\ modelStatus' = c.modelStatus
    /\ stored' = c.stored
    /\ step' = "ended"
    /\ outcome' = how
    /\ UNCHANGED << selectedModels, answerByModel, reasoningByModel, received,
                    rvars, dvars, avars, hvars, pvars, svars, gvars >>

\* fetch resolved: the read loop begins, or `Request failed` is thrown.
FetchResolves(ok) ==
    /\ step = "fetch"
    /\ IF ok
       THEN /\ step' = "read"
            /\ UNCHANGED << selectedModels, modelStatus, answerByModel, reasoningByModel,
                            answers, stored, received, outcome, rvars, dvars, avars, hvars, pvars, svars, gvars >>
       ELSE Caught(CatchOtherError(<<"e">>), "failed")

\* One data line of the response goes through the read loop's dispatch.
ReadEnvelope(data) ==
    /\ step = "read"
    /\ Len(received) < MaxEnvelopes
    /\ received' = Append(received, data)
    /\ LET m == data.modelId
       IN  CASE data.type = "start" ->
                  /\ modelStatus' = [modelStatus EXCEPT ![m] = "streaming"]
                  /\ answers' = setAnswer(answers, m, [status |-> "streaming"])
                  /\ stored' = updateAnswer(stored, m, [status |-> "streaming"])
                  /\ UNCHANGED << answerByModel, reasoningByModel >>
             [] data.type = "reasoning_summary_start" ->
                  /\ answers' = setAnswer(answers, m, [reasoningSummary |-> <<>>])
                  /\ stored' = updateAnswer(stored, m, [reasoningSummary |-> <<>>])
                  /\ UNCHANGED << modelStatus, answerByModel, reasoningByModel >>
             [] data.type = "reasoning_summary_chunk" /\ data.content # <<>> ->
                  /\ answers' = [a \in DOMAIN answers |->
                                    IF a = m
                                    THEN [answers[a] EXCEPT !.reasoningSummary = @ \o data.content]
                                    ELSE answers[a]]
                  /\ reasoningByModel' = [reasoningByModel EXCEPT ![m] = @ \o data.content]
                  /\ UNCHANGED << modelStatus, answerByModel, stored >>
             [] data.type = "chunk" ->
                  /\ answers' = [a \in DOMAIN answers |->
                                    IF a = m
                                    THEN [answers[a] EXCEPT !.content = @ \o data.content]
                                    ELSE answers[a]]
                  /\ answerByModel' = [answerByModel EXCEPT ![m] = @ \o data.content]
                  /\ UNCHANGED << modelStatus, reasoningByModel, stored >>
             [] data.type = "done" ->
                  /\ modelStatus' = [modelStatus EXCEPT ![m] = "done"]
                  /\ answers' = setAnswer(answers, m, [status |-> "done"])
                  /\ stored' = updateAnswer(stored, m,
                                   [status |-> "done",
                                    content |-> answerByModel[m],
                                    reasoningSummary |-> reasoningByModel[m]])
                  /\ UNCHANGED << answerByModel, reasoningByModel >>
             [] data.type = "error" ->
                  /\ modelStatus' = [modelStatus EXCEPT ![m] = "error"]
                  /\ answers' = setAnswer(answers, m, [status |-> "error", error |-> data.error])
                  /\ stored' = updateAnswer(stored, m,
                                   [status |-> "error", error |-> data.error,
                                    content |-> answerByModel[m],
                                    reasoningSummary |-> reasoningByModel[m]])
                  /\ UNCHANGED << answerByModel, reasoningByModel >>
             [] OTHER ->
                  UNCHANGED << modelStatus, answerByModel, reasoningByModel, answers, stored >>
    /\ UNCHANGED << selectedModels, step, outcome, rvars, dvars, avars, hvars, pvars, svars, gvars >>

\* reader.read() returned done: the loop breaks, the finally runs.
ReadDone ==
    /\ step = "read"
    /\ step' = "ended"
    /\ outcome' = "completed"
    /\ UNCHANGED << selectedModels, modelStatus, answerByModel, reasoningByModel,
                    answers, stored, received, rvars, dvars, avars, hvars, pvars, svars, gvars >>

\* handleStop: controller.abort() rejects the pending fetch or read with an
\* AbortError, which the catch of submitQuestion receives.
handleStop ==
    /\ step \in {"fetch", "read"}
    /\ Caught(CatchAbortError, "aborted")

\* The pending fetch or read rejects with a network error.
ReadFails ==
    /\ step \in {"fetch", "read"}
    /\ Caught(CatchOtherError(<<"e">>), "failed")

InitClient ==
    /\ RouterIdle
    /\ DiffIdle
    /\ AdapterIdle
    /\ HistoryIdle
    /\ PureIdle
    /\ SubmissionsIdle
    /\ DragIdle
    /\ selectedModels \in ClientModelLists
    /\ step = "idle"
    /\ modelStatus = <<>>
    /\ answerByModel = <<>>
    /\ reasoningByModel = <<>>
    /\ answers = <<>>
    /\ stored = <<>>
    /\ received = <<>>
    /\ outcome = "none"

NextClient ==
    \/ Submit
    \/ \E ok \in BOOLEAN : FetchResolves(ok)
    \/ \E data \in ClientEnvelopes : ReadEnvelope(data)
    \/ ReadDone
    \/ handleStop
    \/ ReadFails

SpecClient == InitClient /\ [][NextClient]_vars

\* ------------------------- SpecAdapter: one call of an adapter, on its own

\* The lines of one reader.read() of the Responses stream, after the split
\* at line feeds. A line is blank, `data: [DONE]`, `data: ` followed by a
\* JSON payload, `data: ` followed by something that is not JSON
\* ("malformed"), or a line that does not start with `data: ` ("other").
SseLine(kind, data) == [kind |-> kind, data |-> data]

NoData == DataLine("none", <<>>)

MalformedLine == SseLine("malformed", NoData)

\* The loop body without the try/catch around JSON.parse: the error ends the
\* generator.
OpenAIOnLineUncaught(st, line) ==
    IF st.ad.status = "thrown" THEN st
    ELSE IF line.kind \in {"blank", "done", "other"} THEN st
    ELSE IF line.kind = "malformed"
    THEN [ad |-> [st.ad EXCEPT !.status = "thrown"], events |-> st.events]
    ELSE LET r == OpenAIOnData(st.ad, line.data)
         IN  [ad |-> r.ad, events |-> st.events \o r.events]

\* The body of the loop over the lines for one line. JSON.parse throws on a
\* payload that is not JSON; the catch inside the loop logs it.
OpenAIOnLine(st, line) ==
    IF line.kind \in {"blank", "done", "other", "malformed"} THEN st
    ELSE LET r == OpenAIOnData(st.ad, line.data)
         IN  [ad |-> r.ad, events |-> st.events \o r.events]

RECURSIVE OpenAIOnLines(_, _)
OpenAIOnLines(st, lines) ==
    IF lines = <<>> THEN st
    ELSE OpenAIOnLines(OpenAIOnLine(st, Head(lines)), Tail(lines))

\* One reader.read() that returned the complete lines `lines`.
OpenAIOnRead(ad, lines) == OpenAIOnLines([ad |-> ad, events |-> <<>>], lines)

\* The payloads of the Responses stream a call may meet.
AdapterData ==
    { DataLine("response.output_text.delta", <<"a">>),
      DataLine("response.reasoning_summary_text.delta", <<"a">>),
      DataLine("response.reasoning_summary_text.delta", <<" ">>),
      DataLine("response.reasoning_summary_part.done", <<"a">>),
      DataLine("response.reasoning_summary_part.done", <<" ">>),
      DataLine("response.reasoning_summary_text.done", <<>>),
      DataLine("response.reasoning_summary_text.done", <<"a">>),
      DataLine("response.output_item.done", <<>>),
      ItemLine("response.output_item.done", <<>>),
      ItemLine("response.output_item.done", <<[kind |-> "text", value |-> <<"a">>]>>),
      ItemLine("response.completed",
               << [kind |-> "junk", value |-> <<>>],
                  [kind |-> "text", value |-> <<" ">>],
                  [kind |-> "summary_text", value |-> <<"a", " ">>],
                  [kind |-> "text", value |-> <<"b">>] >>),
      DataLine("response.completed", <<>>),
      [DataLine("chat.completion.chunk", <<>>) EXCEPT !.chat = <<"a">>] }

\* The reads: one line each, and a malformed line before or after a payload.
AdapterReads ==
    { <<SseLine("data", d)>> : d \in AdapterData }
    \cup { <<MalformedLine>>, <<SseLine("blank", NoData)>>, <<SseLine("done", NoData)>>,
           <<SseLine("other", NoData)>> }
    \cup { <<MalformedLine, SseLine("data", d)>> :
              d \in { DataLine("response.output_text.delta", <<"a">>),
                      DataLine("response.reasoning_summary_text.delta", <<"a">>) } }
    \cup { <<SseLine("data", DataLine("response.reasoning_summary_text.delta", <<"a">>)),
             MalformedLine,
             SseLine("data", DataLine("response.reasoning_summary_text.done", <<"a">>))>> }

\* Chunks of generateContentStream: those of the route's model, a longer
\* thought, and a chunk with a thought part and an answer part.
AdapterChunks ==
    GeminiChunks
    \cup { [parts |-> <<[text |-> <<"a", "b">>, thought |-> TRUE]>>, text |-> <<>>],
           [parts |-> <<[text |-> <<"a">>, thought |-> TRUE],
                        [text |-> <<"b">>, thought |-> FALSE]>>, text |-> <<>>] }

\* The tool environments: the defaults; the code interpreter on; the code
\* interpreter on without web search; every tool off.
AdapterEnvs ==
    { DefaultEnv,
      [DefaultEnv EXCEPT !.OPENAI_ENABLE_CODE_INTERPRETER = "true"],
      [DefaultEnv EXCEPT !.OPENAI_ENABLE_CODE_INTERPRETER = "true",
                         !.OPENAI_ENABLE_WEB_SEARCH = "off",
                         !.GEMINI_ENABLE_CODE_EXECUTION = "Off"],
      [DefaultEnv EXCEPT !.OPENAI_FORCE_DISABLE_TOOLS = "true",
                         !.GEMINI_FORCE_DISABLE_TOOLS = "true"] }

AdapterCalls ==
    { [kind |-> "openai", model |-> "gpt-5.2"],
      [kind |-> "openai", model |-> "gpt-5.2-pro"],
      [kind |-> "gemini", model |-> "gemini-3-pro"] }

\* The tool set of the request the call starts with.
FirstToolSet(c, e) ==
    IF c.kind = "openai"
    THEN buildOpenAITools(e, resolveOpenAIModelName(e, c.model), c.model, FALSE)
    ELSE buildAttemptToolSets(e)[1]

Delivered(what, val) == [what |-> what, val |-> val]

\* The adapter takes the step `res` on the delivery `d`.
AdapterAdvance(res, d) ==
    /\ ast' = res.ad
    /\ yields' = yields \o res.events
    /\ feed' = Append(feed, d)
    /\ UNCHANGED << call, stream, buffer, rvars, dvars, cvars, hvars, pvars, svars, gvars >>

Reads == Cardinality({i \in 1..Len(feed) : feed[i].what \in {"read", "chunk"}})

\* requestResponsesStream resolved.
OpenAIResponds(r) ==
    /\ call.kind = "openai"
    /\ ast.status \in {"request", "retry"}
    /\ LET res == OpenAIOnResponse(ast, r, env, call.model)
       IN  /\ AdapterAdvance(res, Delivered("response", r))
           /\ sent' = IF res.ad.status = "retry"
                      THEN Append(sent, buildOpenAITools(env, resolveOpenAIModelName(env, call.model),
                                                         call.model, TRUE))
                      ELSE sent
           /\ shadow' = [shadow EXCEPT !.ad = res.ad]

\* reader.read() returned the lines `lines`.
OpenAIReads(lines) ==
    /\ call.kind = "openai"
    /\ ast.status = "streaming"
    /\ Reads < MaxReads
    /\ AdapterAdvance(OpenAIOnRead(ast, lines), Delivered("read", lines))
    /\ LET sh == OpenAIOnRead(shadow.ad,
                              SelectSeq(lines, LAMBDA l : l.kind # "malformed"))
       IN  shadow' = [ad |-> sh.ad, yields |-> shadow.yields \o sh.events]
    /\ UNCHANGED sent

\* reader.read() returned done.
OpenAIEnds ==
    /\ call.kind = "openai"
    /\ ast.status = "streaming"
    /\ AdapterAdvance(OpenAIOnEnd(ast), Delivered("end", <<>>))
    /\ shadow' = [shadow EXCEPT !.ad = OpenAIOnEnd(shadow.ad).ad]
    /\ UNCHANGED sent

\* fetch or reader.read() rejected.
OpenAIFails ==
    /\ call.kind = "openai"
    /\ ast.status \in {"request", "retry", "streaming"}
    /\ AdapterAdvance(OpenAIOnError(ast), Delivered("error", <<>>))
    /\ shadow' = [shadow EXCEPT !.ad = OpenAIOnError(shadow.ad).ad]
    /\ UNCHANGED sent

\* generateContentStream resolved.
GeminiOpens ==
    /\ call.kind = "gemini"
    /\ ast.status = "calling"
    /\ AdapterAdvance(GeminiOnOpen(ast), Delivered("open", <<>>))
    /\ UNCHANGED << sent, shadow >>

\* The for-await loop received `chunk`.
GeminiChunkArrives(chunk) ==
    /\ call.kind = "gemini"
    /\ ast.status = "streaming"
    /\ Reads < MaxReads
    /\ AdapterAdvance(GeminiOnChunk(ast, chunk), Delivered("chunk", chunk))
    /\ UNCHANGED << sent, shadow >>

\* The response ended.
GeminiEnds ==
    /\ call.kind = "gemini"
    /\ ast.status = "streaming"
    /\ AdapterAdvance(GeminiOnEnd(ast), Delivered("end", <<>>))
    /\ UNCHANGED << sent, shadow >>

\* generateContentStream or the iteration rejected with `error`.
GeminiFails(error) ==
    /\ call.kind = "gemini"
    /\ ast.status \in {"calling", "streaming"}
    /\ LET sets == buildAttemptToolSets(env)
           res  == GeminiOnError(ast, error, Len(sets))
       IN  /\ AdapterAdvance(res, Delivered("error", error))
           /\ sent' = IF res.ad.status = "calling"
                      THEN Append(sent, sets[res.ad.attemptIndex + 1])
                      ELSE sent
    /\ UNCHANGED shadow

InitAdapter ==
    /\ request = AskRequest(QuestionOnly, TRUE, <<>>)
    /\ env \in AdapterEnvs
    /\ response = [status |-> 0, contentType |-> "none"]
    /\ wire = <<>>
    /\ branch = <<>>
    /\ pm = "idle"
    /\ closed = FALSE
    /\ clientAborted = FALSE
    /\ readAfterAbort = FALSE
    /\ chunksUsed = 0
    /\ budget = 0
    /\ DiffIdle
    /\ ClientIdle
    /\ HistoryIdle
    /\ PureIdle
    /\ SubmissionsIdle
    /\ DragIdle
    /\ call \in AdapterCalls
    /\ ast = IF call.kind = "openai" THEN OpenAIStart ELSE GeminiStart
    /\ yields = <<>>
    /\ feed = <<>>
    /\ sent = <<FirstToolSet(call, env)>>
    /\ shadow = [ad |-> IF call.kind = "openai" THEN OpenAIStart ELSE GeminiStart,
                 yields |-> <<>>]
    /\ stream = <<>>
    /\ buffer = <<>>

NextAdapter ==
    \/ \E r \in OpenAIResponses : OpenAIResponds(r)
    \/ \E lines \in AdapterReads : OpenAIReads(lines)
    \/ OpenAIEnds
    \/ OpenAIFails
    \/ GeminiOpens
    \/ \E chunk \in AdapterChunks : GeminiChunkArrives(chunk)
    \/ GeminiEnds
    \/ \E error \in ProviderErrors : GeminiFails(error)

SpecAdapter == InitAdapter /\ [][NextAdapter]_vars

\* -------------------------------------------------- properties of the route

KnownIds == {AVAILABLE_MODELS[i].id : i \in 1..Len(AVAILABLE_MODELS)}

\* The envelopes on the wire tagged with model id m, and those branch b wrote.
WireFor(m) == SelectSeq(wire, LAMBDA e : e.modelId = m)

WireOf(b) == SelectSeq(wire, LAMBDA e : e.branch = b)

Positions(w, types) == {i \in 1..Len(w) : w[i].type \in types}

ContentTypes == {"chunk", "reasoning_summary_chunk"}

StreamTypes == {"chunk", "reasoning_summary_start", "reasoning_summary_chunk",
                "reasoning_summary_done"}

TerminalTypes == {"done", "error"}

\* C1, as claimed: for every model id of the request, each chunk and
\* reasoning_summary_chunk on the wire has a start for that id before it, the
\* id has at most one start and at most one terminal envelope (done or error),
\* nothing tagged with the id follows the terminal envelope, and once the
\* stream is complete every id that got a start has its terminal envelope.
C1_PerModelIdOrder ==
    \A m \in Range(request.models) :
        LET w == WireFor(m)
        IN  /\ \A i \in Positions(w, ContentTypes) :
                  \E j \in 1..(i - 1) : w[j].type = "start"
            /\ Cardinality(Positions(w, {"start"})) <= 1
            /\ Cardinality(Positions(w, TerminalTypes)) <= 1
            /\ \A i \in Positions(w, TerminalTypes) : i = Len(w)
            /\ (pm = "completed" /\ Positions(w, {"start"}) # {})
                  => Positions(w, TerminalTypes) # {}

\* C2: `complete` is on the wire at most once; when it is, every branch has
\* written its terminal envelope, `complete` is the last envelope and the
\* writer is closed; the writer is closed only after `complete`.
C2_Safety ==
    LET cs == Positions(wire, {"complete"})
    IN  /\ Cardinality(cs) <= 1
        /\ \A i \in cs :
              /\ i = Len(wire)
              /\ closed
              /\ \A b \in DOMAIN branch :
                    /\ Cardinality(Positions(WireOf(b), TerminalTypes)) = 1
                    /\ WireOf(b)[Len(WireOf(b))].type \in TerminalTypes
        /\ closed => cs # {}
        /\ (pm = "completed") <=> (cs # {})

\* C2: the above in every state, and whenever every provider call has ended
\* (every branch has settled) while the client is still there, `complete`
\* is eventually written, whatever the interleaving of the branches was.
C2_CompleteOnceAndLast ==
    /\ []C2_Safety
    /\ (pm = "running" /\ AllFulfilled) ~> (pm = "completed" \/ clientAborted)

C2_Witness ==
    /\ pm = "completed"
    /\ Len(request.models) = 2
    /\ \E b, c \in DOMAIN branch :
          /\ branch[b].ad.status = "thrown"
          /\ branch[c].ad.status = "returned"
          /\ Positions(WireOf(c), {"chunk"}) # {}
    /\ wire[Len(wire)].type = "complete"

\* What branch b writes, computed from its own adapter's history alone.
ExpectedOf(b) ==
    LET br == branch[b]
        st == RouterOnEvents([rsStarted |-> FALSE, rsDone |-> FALSE, out |-> <<>>],
                             br.evs, br.modelId, b)
    IN  IF br.modelId \notin KnownIds
        THEN << Envelope("error", br.modelId, <<"Model not found">>, b) >>
        ELSE << Envelope("start", br.modelId, <<>>, b) >>
             \o st.out
             \o (IF br.ad.status = "returned"
                 THEN (IF st.rsStarted /\ ~st.rsDone
                       THEN << Envelope("reasoning_summary_done", br.modelId, <<>>, b) >>
                       ELSE <<>>)
                      \o << Envelope("done", br.modelId, <<>>, b) >>
                 ELSE IF br.ad.status = "thrown"
                 THEN << Envelope("error", br.modelId, <<"adapter error">>, b) >>
                 ELSE <<>>)

C3_State ==
    /\ \A b \in DOMAIN branch :
          LET w == WireOf(b)
          IN  /\ \A i \in 1..Len(w) : w[i].modelId = branch[b].modelId
              /\ (branch[b].ad.status = "thrown" /\ branch[b].pc = "fulfilled")
                    => /\ Cardinality(Positions(w, {"error"})) = 1
                       /\ w[Len(w)].type = "error"
              /\ branch[b].pc # "rejected" => w = ExpectedOf(b)
              /\ branch[b].pc = "rejected" => clientAborted
    /\ pm = "rejected" => clientAborted

C3_Step ==
    \A b \in DOMAIN branch \cap DOMAIN branch' :
        /\ branch'[b] # branch[b] =>
              /\ \A c \in DOMAIN branch \ {b} : branch'[c] = branch[c]
              /\ pm' = pm
        /\ (branch[b].pc = "running" /\ branch'[b].pc = "fulfilled")
              => branch'[b].ad.status \in {"thrown", "returned"}

\* C3: a branch whose adapter threw has exactly one error envelope, its last,
\* tagged with its model id; what every branch wrote is determined by its own
\* adapter's events (so a sibling's envelopes are what they would be had the
\* failed invocation succeeded); a step of one branch, a failing one
\* included, changes no other branch and not the router; a branch or the
\* router ends abnormally only when the client has gone away.
C3_FailureIsolation == []C3_State /\ [][C3_Step]_vars

C3_Witness ==
    /\ pm = "completed"
    /\ \E b, c \in DOMAIN branch :
          /\ branch[b].ad.status = "thrown"
          /\ branch[b].yielded
          /\ branch[c].ad.status = "returned"
          /\ \E i, j \in 1..Len(wire) :
                /\ i < j
                /\ wire[i].type = "error" /\ wire[i].branch = b
                /\ wire[j].type = "chunk" /\ wire[j].branch = c

\* C4: in every branch, a failure met after the attempt had yielded content
\* starts no further attempt; it is the invocation's last failure, the
\* adapter has thrown, and the envelope the branch ends with is the error.
C4_NoFallbackAfterContent ==
    \A b \in DOMAIN branch :
        \A i \in 1..Len(branch[b].fails) :
            branch[b].fails[i].afterContent =>
                /\ ~branch[b].fails[i].retried
                /\ i = Len(branch[b].fails)
                /\ branch[b].ad.status = "thrown"
                /\ branch[b].pc = "fulfilled"
                      => WireOf(b)[Len(WireOf(b))].type = "error"

C4_Witness ==
    \E b \in DOMAIN branch :
        /\ branch[b].provider = "gemini"
        /\ Len(buildAttemptToolSets(env)) = 3
        /\ branch[b].pc = "fulfilled"
        /\ \E i \in 1..Len(branch[b].fails) :
              /\ branch[b].fails[i].afterContent
              /\ branch[b].fails[i].compat
              /\ branch[b].fails[i].attempt = 0
        /\ Positions(WireOf(b), {"chunk"}) # {}

\* C7, as claimed: once the client has aborted the request, no provider call
\* or provider read of that request delivers anything any more (stated for
\* the OpenAI and Gemini adapters).
C7_NoProviderReadAfterAbort == ~readAfterAbort

\* C8: a branch whose model id is not in AVAILABLE_MODELS writes exactly one
\* envelope, the error "Model not found"; nothing else on the wire carries
\* that id; the branch is settled, so it does not hold up `complete`; the
\* branches of the known ids each got their start and end abnormally only
\* when the client has gone away; a completed request ends in `complete`.
C8_UnknownModelIsolated ==
    \A b \in DOMAIN branch :
        branch[b].modelId \notin KnownIds =>
            /\ WireOf(b) = << Envelope("error", branch[b].modelId, <<"Model not found">>, b) >>
            /\ \A i \in 1..Len(wire) :
                  wire[i].modelId = branch[b].modelId => wire[i].type = "error"
            /\ branch[b].pc = "fulfilled"
            /\ \A c \in DOMAIN branch :
                  branch[c].modelId \in KnownIds =>
                      /\ WireOf(c) # <<>>
                      /\ WireOf(c)[1].type = "start"
                      /\ branch[c].pc = "rejected" => clientAborted
                      /\ branch[c].pc # "rejected" => WireOf(c) = ExpectedOf(c)
            /\ pm = "completed" => wire[Len(wire)].type = "complete"

C8_Witness ==
    /\ pm = "completed"
    /\ \E b, c \in DOMAIN branch :
          /\ branch[b].modelId \notin KnownIds
          /\ branch[c].modelId \in KnownIds
          /\ Positions(WireOf(c), {"chunk"}) # {}
          /\ Positions(WireOf(c), {"done"}) # {}
    /\ wire[Len(wire)].type = "complete"

NoContent(req) == req.question = <<>> /\ req.images = 0 /\ req.pdfs = 0

\* C9, as claimed: a request without content, without a `models` key or with
\* an empty model list is answered with a 400 JSON response; no stream is
\* started and no branch is spawned.
C9_InvalidRequestGets400 ==
    (response.status # 0
     /\ (NoContent(request) \/ ~request.modelsDefined \/ request.models = <<>>))
        => /\ response.status = 400
           /\ response.contentType = "application/json"
           /\ wire = <<>>
           /\ branch = <<>>
           /\ pm = "idle"

\* C10: with the three models of the Fast tier, when the only failure of the
\* Gemini invocation is a tool-compatibility error of its first attempt
\* before any content, the envelopes tagged with the Gemini id are one
\* start, then only chunk and reasoning envelopes, then (once the branch has
\* ended) done: no error, no second start.
C10_RetryInvisible ==
    \A b \in DOMAIN branch :
        ( /\ Len(request.models) = 3
          /\ branch[b].provider = "gemini"
          /\ Len(branch[b].fails) = 1
          /\ branch[b].fails[1].attempt = 0
          /\ branch[b].fails[1].compat
          /\ ~branch[b].fails[1].afterContent
          /\ branch[b].pc # "rejected" )
        => LET w == WireFor(branch[b].modelId)
           IN  /\ Positions(w, {"start"}) = {1}
               /\ Positions(w, {"error"}) = {}
               /\ \A i \in 2..Len(w) : w[i].type \in StreamTypes \cup {"done"}
               /\ \A i \in Positions(w, {"done"}) : i = Len(w)
               /\ branch[b].pc = "fulfilled" => w[Len(w)].type = "done"

C10_Witness ==
    \E b \in DOMAIN branch :
        /\ Len(request.models) = 3
        /\ branch[b].provider = "gemini"
        /\ Len(branch[b].fails) = 1
        /\ branch[b].fails[1].attempt = 0
        /\ branch[b].fails[1].compat
        /\ ~branch[b].fails[1].afterContent
        /\ branch[b].pc = "fulfilled"
        /\ Positions(WireFor(branch[b].modelId), {"chunk"}) # {}
        /\ pm = "completed"

\* ---------------------------------- properties of the diffing function

\* The cumulative text after the first i texts: the longest one fed so far.
RECURSIVE CumulativeText(_)
CumulativeText(i) ==
    IF i = 0 THEN <<>>
    ELSE LET c == CumulativeText(i - 1)
         IN  IF Len(incomings[i]) > Len(c) THEN incomings[i] ELSE c

\* Every text fed extends the cumulative text so far, or is a stale repeat:
\* that text again, or an earlier, shorter state of it.
Cumulative ==
    \A i \in 1..Len(incomings) :
        \/ StartsWith(incomings[i], CumulativeText(i - 1))
        \/ StartsWith(CumulativeText(i - 1), incomings[i])

\* C5: for a cumulative sequence of texts, the deltas returned up to any
\* point concatenate to the cumulative text at that point (so each delta is
\* exactly the new suffix, never content already returned, and a stale repeat
\* gives the empty delta); in particular all deltas concatenate to the final
\* cumulative text, which is also the baseline kept.
C5_DeltasRebuildCumulativeText ==
    Cumulative =>
        /\ \A i \in 1..Len(incomings) :
              Flatten(SubSeq(deltas, 1, i)) = CumulativeText(i)
        /\ previous = CumulativeText(Len(incomings))

C5_Witness ==
    /\ incomings = << <<"a">>, <<"a", "b">>, <<"a", "b">> >>
    /\ deltas = << <<"a">>, <<"b">>, <<>> >>

\* ------------------------------------------- properties of the browser

\* The text of the envelopes of one type read so far for model id m.
ReceivedText(m, type) ==
    Flatten([i \in 1..Len(received) |->
                IF received[i].modelId = m /\ received[i].type = type
                THEN received[i].content ELSE <<>>])

C6_Step ==
    (outcome = "none" /\ outcome' = "aborted") =>
        \A m \in Range(selectedModels) :
            IF Terminal(modelStatus[m])
            THEN /\ modelStatus'[m] = modelStatus[m]
                 /\ stored'[m] = stored[m]
                 /\ answers'[m] = answers[m]
            ELSE /\ modelStatus'[m] = "done"
                 /\ stored'[m].status = "done"
                 /\ stored'[m].content = ReceivedText(m, "chunk")
                 /\ stored'[m].reasoningSummary = ReceivedText(m, "reasoning_summary_chunk")
                 /\ answers'[m].status = "done"
                 /\ answers'[m].content = ReceivedText(m, "chunk")

\* C6: the step in which a submission is cancelled sets every selected model
\* that is not yet done or error to done, storing exactly the answer text and
\* the reasoning text read so far, and leaves the models already done or
\* error as they were; in particular it sets no model to error.
C6_CancelFinalizesAsDone == [][C6_Step]_vars

C6_Witness ==
    /\ outcome = "aborted"
    /\ Len(selectedModels) = 2
    /\ \E m, n \in Range(selectedModels) :
          /\ stored[m].status = "done"
          /\ stored[m].content = <<"a">>
          /\ \A i \in 1..Len(received) :
                received[i].modelId = m => received[i].type # "done"
          /\ stored[n].status = "error"

\* ----------------------- SpecClaude: one call of streamClaudeResponse

\* CLAUDE_TOOL_PAUSE_TURN_MAX when the environment does not set it.
CLAUDE_TOOL_PAUSE_TURN_MAX_DEFAULT == 5

\* The values of CLAUDE_TOOL_PAUSE_TURN_MAX the calls run with.
ClaudePauseTurnMaxima == {1, 2, CLAUDE_TOOL_PAUSE_TURN_MAX_DEFAULT}

\* The error a call throws: its message is `text`, followed by `limit` when
\* the message names the limit on the pause_turn rounds.
ClaudeError(text, limit) == [text |-> text, limit |-> limit]

NoClaudeError == ClaudeError(<<>>, 0)

\* The locals of one call. status: awaiting the response of a request
\* ("requesting"), reading its SSE body ("streaming"), or ended. pauseTurns is
\* the continuation round counter, blocks the content blocks accumulated in
\* the current round, messages the assistant messages appended to the
\* conversation so far, error the message of the error thrown.
ClaudeCallStart(maxPauseTurns) ==
    [ status        |-> "requesting",
      maxPauseTurns |-> maxPauseTurns,
      pauseTurns    |-> 0,
      sawReasoning  |-> FALSE,
      doneEmitted   |-> FALSE,
      blocks        |-> <<>>,
      messages      |-> <<>>,
      error         |-> NoClaudeError ]

ClaudeBlock(type, text) == [type |-> type, text |-> text]

\* The SSE events of the Messages stream: a text delta, a thinking delta, the
\* message end with its stop_reason, an `error` event, and a data line that
\* is not JSON.
ClaudeSse(event, text) == [event |-> event, text |-> text]

ClaudeSseEvents ==
    { ClaudeSse("text_delta", <<"a">>),
      ClaudeSse("thinking_delta", <<"a">>),
      ClaudeSse("message_stop", <<"pause_turn">>),
      ClaudeSse("message_stop", <<"end_turn">>),
      ClaudeSse("error", <<"Overloaded">>),
      ClaudeSse("malformed", <<>>) }

\* The closing reasoning event, due once when reasoning content was seen.
ClaudeClosing(ad) == IF ad.sawReasoning /\ ~ad.doneEmitted THEN <<ReasoningDone>> ELSE <<>>

\* The `error` event handled like a data line that does not parse.
ClaudeOnStreamErrorSwallowed(ad, message) == [ad |-> ad, events |-> <<>>]

\* An in-stream `error` event: the call fails with the provider's message.
ClaudeOnStreamError(ad, message) ==
    [ ad |-> [ad EXCEPT !.status = "thrown",
                        !.error = ClaudeError(<<"Claude stream error: ">> \o message, 0)],
      events |-> <<>> ]

\* pause_turn without the limit on the rounds.
ClaudeOnPauseTurnUnbounded(ad) ==
    [ ad |-> [ad EXCEPT !.pauseTurns = @ + 1,
                        !.messages = Append(@, ad.blocks),
                        !.blocks = <<>>,
                        !.status = "requesting"],
      events |-> <<>> ]

\* The round ended with stop_reason pause_turn: the counter advances, and
\* the request is re-issued with the round's blocks appended as an assistant
\* message, or the call fails when the rounds are used up.
ClaudeOnPauseTurn(ad) ==
    IF ad.pauseTurns + 1 > ad.maxPauseTurns
    THEN [ ad |-> [ad EXCEPT !.pauseTurns = @ + 1,
                             !.status = "thrown",
                             !.error = ClaudeError(<<"Claude pause_turn limit reached: ">>,
                                                   ad.maxPauseTurns)],
           events |-> <<>> ]
    ELSE [ ad |-> [ad EXCEPT !.pauseTurns = @ + 1,
                             !.messages = Append(@, ad.blocks),
                             !.blocks = <<>>,
                             !.status = "requesting"],
           events |-> <<>> ]

\* The closing event yielded at completion whatever was seen.
ClaudeOnCompletionAlwaysClosing(ad) ==
    [ ad |-> [ad EXCEPT !.status = "returned", !.doneEmitted = TRUE],
      events |-> <<ReasoningDone>> ]

\* The round ended with another stop_reason: the call completes.
ClaudeOnCompletion(ad) ==
    [ ad |-> [ad EXCEPT !.status = "returned",
                        !.doneEmitted = @ \/ ad.sawReasoning],
      events |-> ClaudeClosing(ad) ]

\* One SSE event of the body.
ClaudeOnSse(ad, ev) ==
    IF ev.event = "text_delta"
    THEN [ ad |-> [ad EXCEPT !.blocks = Append(@, ClaudeBlock("text", ev.text))],
           events |-> <<AnswerDelta(ev.text)>> ]
    ELSE IF ev.event = "thinking_delta"
    THEN [ ad |-> [ad EXCEPT !.blocks = Append(@, ClaudeBlock("thinking", ev.text)),
                             !.sawReasoning = TRUE],
           events |-> <<ReasoningDelta(ev.text)>> ]
    ELSE IF ev.event = "message_stop" /\ ev.text = <<"pause_turn">>
    THEN ClaudeOnPauseTurn(ad)
    ELSE IF ev.event = "message_stop"
    THEN ClaudeOnCompletion(ad)
    ELSE IF ev.event = "error"
    THEN ClaudeOnStreamError(ad, ev.text)
    ELSE [ad |-> ad, events |-> <<>>]

\* fetch resolved: with a body to read, or with a status that is terminal.
ClaudeOnResponse(ad, ok) ==
    [ ad |-> IF ok THEN [ad EXCEPT !.status = "streaming"]
             ELSE [ad EXCEPT !.status = "thrown", !.error = ClaudeError(<<"Claude API error">>, 0)],
      events |-> <<>> ]

\* The body ended without a message end: the generator ends.
ClaudeOnBodyEnd(ad) == ClaudeOnCompletion(ad)

ClaudeDeltas ==
    Cardinality({i \in 1..Len(feed) :
                    /\ feed[i].what = "sse"
                    /\ feed[i].val.event \in {"text_delta", "thinking_delta", "malformed"}})

ClaudeAdvance(res, d) ==
    /\ ast' = res.ad
    /\ yields' = yields \o res.events
    /\ feed' = Append(feed, d)
    /\ sent' = IF res.ad.status = "requesting" /\ ast.status # "requesting"
               THEN Append(sent, res.ad.messages) ELSE sent
    /\ UNCHANGED << call, shadow, stream, buffer, rvars, dvars, cvars, hvars, pvars, svars, gvars >>

ClaudeResponds(ok) ==
    /\ call.kind = "claude"
    /\ ast.status = "requesting"
    /\ ClaudeAdvance(ClaudeOnResponse(ast, ok), Delivered("response", ok))

ClaudeSseArrives(ev) ==
    /\ call.kind = "claude"
    /\ ast.status = "streaming"
    /\ ev.event \in {"text_delta", "thinking_delta", "malformed"} => ClaudeDeltas < MaxClaudeDeltas
    /\ ClaudeAdvance(ClaudeOnSse(ast, ev), Delivered("sse", ev))

ClaudeBodyEnds ==
    /\ call.kind = "claude"
    /\ ast.status = "streaming"
    /\ ClaudeAdvance(ClaudeOnBodyEnd(ast), Delivered("end", <<>>))

InitClaude ==
    /\ RouterIdle
    /\ DiffIdle
    /\ ClientIdle
    /\ HistoryIdle
    /\ PureIdle
    /\ SubmissionsIdle
    /\ DragIdle
    /\ call = [kind |-> "claude", model |-> "claude-opus-4-6"]
    /\ \E max \in ClaudePauseTurnMaxima : ast = ClaudeCallStart(max)
    /\ yields = <<>>
    /\ feed = <<>>
    /\ sent = << <<>> >>
    /\ shadow = [ad |-> [status |-> "none"], yields |-> <<>>]
    /\ stream = <<>>
    /\ buffer = <<>>

NextClaude ==
    \/ \E ok \in BOOLEAN : ClaudeResponds(ok)
    \/ \E ev \in ClaudeSseEvents : ClaudeSseArrives(ev)
    \/ ClaudeBodyEnds

SpecClaude == InitClaude /\ [][NextClaude]_vars

\* ------------------- SpecHistory: the history rebuilt for one model

MAX_HISTORY_TURNS == 8

MAX_CHARS_PER_TURN == 12000

clipText(value) ==
    IF Len(value) > MAX_CHARS_PER_TURN THEN SubSeq(value, 1, MAX_CHARS_PER_TURN) ELSE value

\* A JSON value where the route expects a string: a string with its text, or
\* a value of another type, or nothing at all.
JsonString(text) == [kind |-> "string", text |-> text]
JsonOther        == [kind |-> "other",  text |-> <<>>]
JsonAbsent       == [kind |-> "absent", text |-> <<>>]

\* history.slice(0, MAX_HISTORY_TURNS): the oldest turns instead of the latest.
FirstTurns(h) ==
    IF Len(h) > MAX_HISTORY_TURNS THEN SubSeq(h, 1, MAX_HISTORY_TURNS) ELSE h

\* history.slice(-MAX_HISTORY_TURNS)
LastTurns(h) ==
    IF Len(h) > MAX_HISTORY_TURNS THEN SubSeq(h, Len(h) - MAX_HISTORY_TURNS + 1, Len(h)) ELSE h

\* The modelAnswers of a sanitized turn: the entries that are strings and
\* not blank after clipping, clipped; an id without such an entry is absent.
sanitizeModelAnswers(raw) ==
    [ id \in DOMAIN raw |->
        IF raw[id].kind = "string" /\ Trim(clipText(raw[id].text)) # <<>>
        THEN JsonString(clipText(raw[id].text))
        ELSE JsonAbsent ]

\* The images of a sanitized turn: trimmed, the empty ones dropped.
RECURSIVE sanitizeImages(_)
sanitizeImages(images) ==
    IF images = <<>> THEN <<>>
    ELSE (IF Trim(Head(images)) # <<>> THEN <<Trim(Head(images))>> ELSE <<>>)
         \o sanitizeImages(Tail(images))

RECURSIVE sanitizeTurns(_)
sanitizeTurns(turns) ==
    IF turns = <<>> THEN <<>>
    ELSE LET turn       == Head(turns)
             userText   == clipText(turn.userText.text)
             userImages == sanitizeImages(turn.userImages)
             rest       == sanitizeTurns(Tail(turns))
         IN  IF turn.userText.kind # "string" THEN rest
             ELSE IF Trim(userText) = <<>> /\ userImages = <<>> THEN rest
             ELSE << [ userText     |-> userText,
                       modelAnswers |-> sanitizeModelAnswers(turn.modelAnswers),
                       userImages   |-> userImages ] >> \o rest

sanitizeHistory(h) == sanitizeTurns(LastTurns(h))

\* The answer of any model of the turn, whatever model was asked for.
AssistantTextOfAnyModel(turn, modelId) ==
    LET ids == {id \in DOMAIN turn.modelAnswers :
                   /\ turn.modelAnswers[id].kind = "string"
                   /\ Trim(turn.modelAnswers[id].text) # <<>>}
    IN  IF ids = {} THEN <<>> ELSE <<turn.modelAnswers[CHOOSE id \in ids : TRUE].text>>

\* turn.modelAnswers?.[modelId] when it passes `assistantText &&
\* assistantText.trim()`: the text, else nothing.
AssistantTextOf(turn, modelId) ==
    IF modelId \in DOMAIN turn.modelAnswers
       /\ turn.modelAnswers[modelId].kind = "string"
       /\ turn.modelAnswers[modelId].text # <<>>
       /\ Trim(turn.modelAnswers[modelId].text) # <<>>
    THEN <<turn.modelAnswers[modelId].text>>
    ELSE <<>>

\* A message of the rebuilt history: its role, its text, its images.
HistoryMessage(role, text, images) == [role |-> role, text |-> text, images |-> images]

\* The loop over sanitizedHistory of the OpenAI, Gemini and Claude branches:
\* the user message of the turn, then the assistant message when the model
\* has an answer. Gemini prefixes the user text and names the role `model`.
RECURSIVE historyMessages(_, _, _)
historyMessages(provider, modelId, turns) ==
    IF turns = <<>> THEN <<>>
    ELSE LET turn == Head(turns)
             user ==
                 IF provider = "gemini"
                 THEN <<HistoryMessage("user", <<"Question:">> \o turn.userText, turn.userImages)>>
                 ELSE IF provider = "claude" /\ Trim(turn.userText) = <<>>
                 THEN IF turn.userImages = <<>> THEN <<>>
                      ELSE <<HistoryMessage("user", <<>>, turn.userImages)>>
                 ELSE <<HistoryMessage("user", turn.userText, turn.userImages)>>
             assistantText == AssistantTextOf(turn, modelId)
             assistant ==
                 IF assistantText = <<>> THEN <<>>
                 ELSE <<HistoryMessage(IF provider = "gemini" THEN "model" ELSE "assistant",
                                       assistantText[1], <<>>)>>
         IN  user \o assistant \o historyMessages(provider, modelId, Tail(turns))

\* The model ids of the three providers a history is rebuilt for.
HistoryModelIds == {"gpt-5.2", "gemini-3-pro", "claude-opus-4-6"}

\* The answer stored for a model: its id, with a blank around it.
AnswerOf(id) == <<" ", id, " ">>

\* The turns of a request's history for the call's model `id`: the user text
\* is not a string, blank (with an image or none) or a question, the model's
\* answer is missing, not a string, empty, blank or a text, and the other
\* models have answered or not.
HistoryTurns(id) ==
    { [ userText     |-> user.userText,
        userImages   |-> user.userImages,
        modelAnswers |-> [m \in HistoryModelIds |-> IF m = id THEN own ELSE
                                                   IF others THEN JsonString(AnswerOf(m))
                                                   ELSE JsonAbsent] ] :
        user \in { [userText |-> JsonOther,           userImages |-> <<>>],
                   [userText |-> JsonString(<<" ">>), userImages |-> <<>>],
                   [userText |-> JsonString(<<" ">>), userImages |-> << <<"i">> >>],
                   [userText |-> JsonString(<<"q">>), userImages |-> <<>>] },
        own \in {JsonAbsent, JsonOther, JsonString(<<>>), JsonString(<<" ">>),
                 JsonString(AnswerOf(id))},
        others \in BOOLEAN }

HistoriesUpTo(id, n) == UNION {[1..k -> HistoryTurns(id)] : k \in 0..n}

\* A text of n characters.
LongText(n) == [i \in 1..n |-> "x"]

\* A turn with the user text `userText` and the answer `own` of model `id`.
HistoryTurn(id, userText, own) ==
    [ userText     |-> userText,
      userImages   |-> <<>>,
      modelAnswers |-> [m \in HistoryModelIds |-> IF m = id THEN own ELSE JsonAbsent] ]

\* Histories longer than the window: turns with a question and an answer,
\* with another question and no answer, and without a user text.
WindowTurns(id) ==
    { HistoryTurn(id, JsonString(<<"q">>), JsonString(AnswerOf(id))),
      HistoryTurn(id, JsonString(<<"r">>), JsonAbsent),
      HistoryTurn(id, JsonOther, JsonString(AnswerOf(id))) }

WindowHistories(id, n) == UNION {[1..k -> WindowTurns(id)] : k \in MAX_HISTORY_TURNS..n}

\* Histories whose last turn has texts at the character budget or beyond,
\* alone or after MAX_HISTORY_TURNS other turns.
ClipHistories(id) ==
    { before \o <<HistoryTurn(id, JsonString(LongText(u)), JsonString(LongText(a)))>> :
        before \in { <<>>,
                     [k \in 1..MAX_HISTORY_TURNS |->
                         HistoryTurn(id, JsonString(<<"q">>), JsonString(AnswerOf(id)))] },
        u \in {1, MAX_CHARS_PER_TURN, MAX_CHARS_PER_TURN + 1},
        a \in {MAX_CHARS_PER_TURN, MAX_CHARS_PER_TURN + 2} }

\* The branch of a model builds its history messages.
RebuildHistory ==
    /\ call.kind = "history"
    /\ rebuilt.status = "none"
    /\ rebuilt' = [status    |-> "built",
                   sanitized |-> sanitizeHistory(history),
                   messages  |-> historyMessages(getModelById(call.model).provider,
                                                 call.model, sanitizeHistory(history))]
    /\ UNCHANGED << history, rvars, dvars, cvars, avars, pvars, svars, gvars >>

InitHistory ==
    /\ RouterIdle
    /\ PureIdle
    /\ SubmissionsIdle
    /\ DragIdle
    /\ DiffIdle
    /\ ClientIdle
    /\ \E id \in HistoryModelIds :
          /\ call = [kind |-> "history", model |-> id]
          /\ history \in HistoriesUpTo(id, MaxTurns)
                        \cup ClipHistories(id)
                        \cup (IF id = "gpt-5.2"
                              THEN WindowHistories(id, MAX_HISTORY_TURNS + MaxBeyondWindow)
                              ELSE {})
    /\ ast = [status |-> "none"]
    /\ yields = <<>>
    /\ feed = <<>>
    /\ sent = <<>>
    /\ shadow = [ad |-> [status |-> "none"], yields |-> <<>>]
    /\ stream = <<>>
    /\ buffer = <<>>
    /\ rebuilt = [status |-> "none", sanitized |-> <<>>, messages |-> <<>>]

NextHistory == RebuildHistory

SpecHistory == InitHistory /\ [][NextHistory]_vars

\* ------------------------------------ SpecAuth: middleware.ts, one request

parseBoolean(raw, fallback) == parseBooleanEnv(raw, fallback)

\* s.indexOf(c): the position of the first c, counted from 0, or -1.
IndexOf(s, c) ==
    IF \E i \in 1..Len(s) : s[i] = c
    THEN (CHOOSE i \in 1..Len(s) : s[i] = c /\ \A j \in 1..(i - 1) : s[j] # c) - 1
    ELSE -1

\* s.split(c)
RECURSIVE SplitOn(_, _)
SplitOn(s, c) ==
    LET at == IndexOf(s, c)
    IN  IF at < 0 THEN <<s>>
        ELSE <<SubSeq(s, 1, at)>> \o SplitOn(SubSeq(s, at + 2, Len(s)), c)

\* An environment variable that holds a text: set or not.
EnvText(text) == [set |-> TRUE, text |-> text]
EnvUnset      == [set |-> FALSE, text |-> <<>>]

\* One item of AUTH_USERS, trimmed: the entry, or none.
parseAuthUser(item) ==
    LET separator == IndexOf(item, ":")
        username  == Trim(SubSeq(item, 1, separator))
        password  == Trim(SubSeq(item, separator + 2, Len(item)))
    IN  IF separator <= 0 THEN <<>>
        ELSE IF username = <<>> \/ password = <<>> THEN <<>>
        ELSE << [username |-> username, password |-> password] >>

RECURSIVE parseAuthItems(_)
parseAuthItems(items) ==
    IF items = <<>> THEN <<>>
    ELSE LET item == Trim(Head(items))
         IN  (IF item = <<>> THEN <<>> ELSE parseAuthUser(item))
             \o parseAuthItems(Tail(items))

parseAuthUsers(raw) ==
    IF ~raw.set \/ raw.text = <<>> THEN <<>>
    ELSE parseAuthItems(SplitOn(raw.text, ","))

\* The Authorization header: absent, or a scheme prefix and what follows it.
\* What follows is empty, not base64, or the base64 of the text `decoded`.
AuthHeader(prefix, kind, decoded) == [prefix |-> prefix, kind |-> kind, decoded |-> decoded]

NoAuthHeader == AuthHeader("", "absent", <<>>)

\* The credentials of the header, or <<>> for null.
readBasicAuth(header) ==
    LET separator == IndexOf(header.decoded, ":")
        username  == SubSeq(header.decoded, 1, separator)
        password  == SubSeq(header.decoded, separator + 2, Len(header.decoded))
    IN  IF header.kind = "absent" \/ header.prefix # "Basic " THEN <<>>
        ELSE IF header.kind = "empty" THEN <<>>
        ELSE IF header.kind = "invalid" THEN <<>>
        ELSE IF separator < 0 THEN <<>>
        ELSE IF username = <<>> \/ password = <<>> THEN <<>>
        ELSE << [username |-> username, password |-> password] >>

\* The user name and the password each match some entry.
isAllowedPerField(authUsers, credentials) ==
    /\ \E i \in 1..Len(authUsers) : authUsers[i].username = credentials.username
    /\ \E i \in 1..Len(authUsers) : authUsers[i].password = credentials.password

isAllowed(authUsers, credentials) ==
    \E i \in 1..Len(authUsers) :
        /\ authUsers[i].username = credentials.username
        /\ authUsers[i].password = credentials.password

\* What middleware returns: NextResponse.next() ("next", status 0) or a
\* response with a status.
AuthResult(kind, status, body) == [kind |-> kind, status |-> status, body |-> body]

middleware(e, header) ==
    LET authEnabled == parseBoolean(e.AUTH_ENABLED, e.NODE_ENV = "production")
        authUsers   == parseAuthUsers(e.AUTH_USERS)
        credentials == readBasicAuth(header)
    IN  IF ~authEnabled THEN AuthResult("next", 0, "")
        ELSE IF Len(authUsers) = 0
        THEN AuthResult("response", 500, "Authentication misconfigured: AUTH_USERS is empty")
        ELSE IF credentials = <<>>
        THEN AuthResult("response", 401, "Authentication required")
        ELSE IF ~isAllowed(authUsers, credentials[1])
        THEN AuthResult("response", 401, "Invalid credentials")
        ELSE AuthResult("next", 0, "")

\* The values of AUTH_USERS: unset, empty, items without a user, a password
\* or a colon, one entry, two entries with blanks around the names, one
\* entry beside an invalid item, and a password with a colon.
AuthUsersValues ==
    { EnvUnset,
      EnvText(<<>>),
      EnvText(<<",">>),
      EnvText(<<"u">>),
      EnvText(<<":", "p">>),
      EnvText(<<"u", ":", " ">>),
      EnvText(<<"u", ":", "p">>),
      EnvText(<<" ", "u", " ", ":", " ", "p", " ", ",", "v", ":", "q">>),
      EnvText(<<"u", ":", "p", ",", "v">>),
      EnvText(<<"u", ":", "p", ":", "x">>) }

AuthEnvs ==
    [ AUTH_ENABLED : EnvRaw,
      NODE_ENV     : {"production", "development"},
      AUTH_USERS   : AuthUsersValues ]

AuthHeaders ==
    { NoAuthHeader,
      AuthHeader("Basic ", "empty", <<>>),
      AuthHeader("Basic ", "invalid", <<>>) }
    \cup { AuthHeader(prefix, "base64", <<"u", ":", "p">>) :
              prefix \in {"Basic", "basic ", "Bearer "} }
    \cup { AuthHeader("Basic ", "base64", decoded) :
              decoded \in { <<>>, <<"u">>, <<":", "p">>, <<"u", ":">>,
                            <<"u", ":", "p">>, <<"v", ":", "q">>, <<"u", ":", "q">>,
                            <<" ", "u", ":", "p">>, <<"u", ":", "p", ":", "x">>,
                            <<"u", ":", "p", ",", "v">> } }

\* The middleware runs on the request.
Middleware ==
    /\ args.function = "middleware"
    /\ result.status = "none"
    /\ result' = [status |-> "returned", value |-> middleware(args.env, args.header)]
    /\ UNCHANGED << args, rvars, dvars, cvars, avars, hvars, svars, gvars >>

InitAuth ==
    /\ RouterIdle
    /\ DiffIdle
    /\ ClientIdle
    /\ AdapterIdle
    /\ HistoryIdle
    /\ SubmissionsIdle
    /\ DragIdle
    /\ \E e \in AuthEnvs, header \in AuthHeaders :
          args = [function |-> "middleware", env |-> e, header |-> header]
    /\ result = [status |-> "none"]

NextAuth == Middleware

SpecAuth == InitAuth /\ [][NextAuth]_vars

\* ------------------------- SpecSliders: the custom model selection sliders

MaxIds == 3

SLIDER_PROVIDER_ORDER == <<"openai", "gemini", "claude">>

PROVIDER_MODEL_SLIDERS ==
    [ openai |-> [defaultModelId |-> "gpt-5.2",
                  steps |-> <<"gpt-5.2", "gpt-5.2-high", "gpt-5.2-pro">>],
      gemini |-> [defaultModelId |-> "gemini-3-pro",
                  steps |-> <<"gemini-3-pro">>],
      claude |-> [defaultModelId |-> "claude-sonnet-4-6",
                  steps |-> <<"claude-sonnet-4-6", "claude-opus-4-6">>] ]

isProviderModelId(provider, modelId) ==
    \E i \in DOMAIN PROVIDER_MODEL_SLIDERS[provider].steps :
        PROVIDER_MODEL_SLIDERS[provider].steps[i] = modelId

\* A Partial<Record<ProviderId, string>>: <<>> where the provider has no
\* entry, <<modelId>> where it has one.
EmptyProviderMap == [provider \in Range(SLIDER_PROVIDER_ORDER) |-> <<>>]

\* SLIDER_PROVIDER_ORDER.map(provider => map[provider]).filter(Boolean)
RECURSIVE ProviderMapValues(_, _)
ProviderMapValues(map, order) ==
    IF order = <<>> THEN <<>>
    ELSE map[Head(order)] \o ProviderMapValues(map, Tail(order))

\* Every provider picks the last of its model ids in the list.
RECURSIVE LastPicked(_, _)
LastPicked(modelIds, picked) ==
    IF modelIds = <<>> THEN picked
    ELSE LastPicked(Tail(modelIds),
             [provider \in DOMAIN picked |->
                 IF \E i \in DOMAIN PROVIDER_MODEL_SLIDERS[provider].steps :
                       PROVIDER_MODEL_SLIDERS[provider].steps[i] = Head(modelIds)
                 THEN <<Head(modelIds)>>
                 ELSE picked[provider]])

normalizeToLastListed(modelIds) ==
    LET picked == LastPicked(modelIds, [provider \in {"openai", "gemini", "claude"} |-> <<>>])
    IN  picked["openai"] \o picked["gemini"] \o picked["claude"]

\* The loops of normalizeProviderModelSelection: the inner one visits every
\* provider, skipping those already picked.
RECURSIVE Picked(_, _)
Picked(modelIds, picked) ==
    IF modelIds = <<>> THEN picked
    ELSE Picked(Tail(modelIds),
             [provider \in DOMAIN picked |->
                 IF picked[provider] # <<>> THEN picked[provider]
                 ELSE IF isProviderModelId(provider, Head(modelIds)) THEN <<Head(modelIds)>>
                 ELSE <<>>])

normalizeProviderModelSelection(modelIds) ==
    ProviderMapValues(Picked(modelIds, EmptyProviderMap), SLIDER_PROVIDER_ORDER)

\* The inner loop of getProviderModelSelectionMap: the first provider in
\* order that has no entry and owns the model id takes it, then break.
RECURSIVE MapOne(_, _, _)
MapOne(map, modelId, order) ==
    IF order = <<>> THEN map
    ELSE IF map[Head(order)] # <<>> THEN MapOne(map, modelId, Tail(order))
    ELSE IF isProviderModelId(Head(order), modelId)
    THEN [map EXCEPT ![Head(order)] = <<modelId>>]
    ELSE MapOne(map, modelId, Tail(order))

RECURSIVE MapAll(_, _)
MapAll(map, modelIds) ==
    IF modelIds = <<>> THEN map
    ELSE MapAll(MapOne(map, Head(modelIds), SLIDER_PROVIDER_ORDER), Tail(modelIds))

getProviderModelSelectionMap(modelIds) ==
    MapAll(EmptyProviderMap, normalizeProviderModelSelection(modelIds))

ensureAtLeastOneProviderModelSelection(modelIds) ==
    LET normalized == normalizeProviderModelSelection(modelIds)
    IN  IF Len(normalized) > 0 THEN normalized
        ELSE << PROVIDER_MODEL_SLIDERS["openai"].defaultModelId >>

activeCountOf(nextMap) ==
    Cardinality({ key \in Range(SLIDER_PROVIDER_ORDER) : nextMap[key] # <<>> })

\* The toggle without the guard for the last active provider.
toggleProviderSelectionToEmpty(modelIds, provider) ==
    LET first(p) == IF \E i \in 1..Len(modelIds) : \E k \in DOMAIN PROVIDER_MODEL_SLIDERS[p].steps :
                          PROVIDER_MODEL_SLIDERS[p].steps[k] = modelIds[i]
                    THEN << modelIds[CHOOSE i \in 1..Len(modelIds) :
                               /\ \E k \in DOMAIN PROVIDER_MODEL_SLIDERS[p].steps :
                                     PROVIDER_MODEL_SLIDERS[p].steps[k] = modelIds[i]
                               /\ \A j \in 1..(i - 1) :
                                     \A k \in DOMAIN PROVIDER_MODEL_SLIDERS[p].steps :
                                         PROVIDER_MODEL_SLIDERS[p].steps[k] # modelIds[j]] >>
                    ELSE <<>>
        shown(p) == IF first("openai") \o first("gemini") \o first("claude") = <<>> /\ p = "openai"
                    THEN << "gpt-5.2" >>
                    ELSE first(p)
        next(p)  == IF p # provider THEN shown(p)
                    ELSE IF shown(p) # <<>> THEN <<>>
                    ELSE << PROVIDER_MODEL_SLIDERS[p].defaultModelId >>
    IN  next("openai") \o next("gemini") \o next("claude")

toggleProviderSelection(modelIds, provider) ==
    LET normalized  == ensureAtLeastOneProviderModelSelection(modelIds)
        nextMap     == getProviderModelSelectionMap(normalized)
        isActive    == nextMap[provider] # <<>>
        activeCount == activeCountOf(nextMap)
    IN  IF isActive /\ activeCount <= 1 THEN normalized
        ELSE IF isActive
        THEN ProviderMapValues([nextMap EXCEPT ![provider] = <<>>], SLIDER_PROVIDER_ORDER)
        ELSE ProviderMapValues(
                 [nextMap EXCEPT ![provider] = << PROVIDER_MODEL_SLIDERS[provider].defaultModelId >>],
                 SLIDER_PROVIDER_ORDER)

\* nextModelId is <<>> for null and <<modelId>> for a model id.
setProviderModelOrOff(modelIds, provider, nextModelId) ==
    LET normalized  == ensureAtLeastOneProviderModelSelection(modelIds)
        nextMap     == getProviderModelSelectionMap(normalized)
        activeCount == activeCountOf(nextMap)
    IN  IF nextModelId = <<>>
        THEN IF nextMap[provider] = <<>> THEN normalized
             ELSE IF activeCount <= 1 THEN normalized
             ELSE ProviderMapValues([nextMap EXCEPT ![provider] = <<>>], SLIDER_PROVIDER_ORDER)
        ELSE IF ~isProviderModelId(provider, nextModelId[1]) THEN normalized
             ELSE ProviderMapValues([nextMap EXCEPT ![provider] = nextModelId],
                                    SLIDER_PROVIDER_ORDER)

\* The swap that keeps the targeted provider's model alone.
setProviderModelAlone(modelIds, provider, nextModelId) ==
    IF isProviderModelId(provider, nextModelId) THEN <<nextModelId>>
    ELSE ensureAtLeastOneProviderModelSelection(modelIds)

setProviderModelSelection(modelIds, provider, nextModelId) ==
    setProviderModelOrOff(modelIds, provider, <<nextModelId>>)

\* The model ids a list may hold: the steps of the sliders and an id of no
\* provider.
SliderModelIds ==
    UNION { Range(PROVIDER_MODEL_SLIDERS[provider].steps) :
               provider \in Range(SLIDER_PROVIDER_ORDER) }

ListedModelIds == SliderModelIds \cup {"random-model-id"}

ModelIdLists == UNION { [1..n -> ListedModelIds] : n \in 0..MaxIds }

SliderApplied(op, provider, nextModelId, value) ==
    [status |-> "applied", op |-> op, provider |-> provider, nextModelId |-> nextModelId,
     before |-> args.modelIds, value |-> value]

\* A provider's switch is toggled; the list becomes what the function returns.
ToggleProvider ==
    /\ args.function = "sliders"
    /\ \E provider \in Range(SLIDER_PROVIDER_ORDER) :
          LET next == toggleProviderSelection(args.modelIds, provider)
          IN  /\ result' = SliderApplied("toggle", provider, <<>>, next)
              /\ args' = [args EXCEPT !.modelIds = next]
    /\ UNCHANGED << rvars, dvars, cvars, avars, hvars, svars, gvars >>

\* A provider's slider is moved to a step or to off.
SetProviderModelOrOff ==
    /\ args.function = "sliders"
    /\ \E provider \in Range(SLIDER_PROVIDER_ORDER),
          nextModelId \in {<<>>} \cup { <<modelId>> : modelId \in ListedModelIds } :
          LET next == setProviderModelOrOff(args.modelIds, provider, nextModelId)
          IN  /\ result' = SliderApplied("set", provider, nextModelId, next)
              /\ args' = [args EXCEPT !.modelIds = next]
    /\ UNCHANGED << rvars, dvars, cvars, avars, hvars, svars, gvars >>

\* normalizeProviderModelSelection is applied to the list.
NormalizeSelection ==
    /\ args.function = "sliders"
    /\ result' = SliderApplied("normalize", "", <<>>,
                               normalizeProviderModelSelection(args.modelIds))
    /\ UNCHANGED << args, rvars, dvars, cvars, avars, hvars, svars, gvars >>

InitSliders ==
    /\ RouterIdle
    /\ DiffIdle
    /\ ClientIdle
    /\ AdapterIdle
    /\ HistoryIdle
    /\ SubmissionsIdle
    /\ DragIdle
    /\ \E modelIds \in ModelIdLists : args = [function |-> "sliders", modelIds |-> modelIds]
    /\ result = [status |-> "none"]

NextSliders ==
    \/ ToggleProvider
    \/ SetProviderModelOrOff
    \/ NormalizeSelection

SpecSliders == InitSliders /\ [][NextSliders]_vars

\* ------------------ SpecSwap: one call of setProviderModelSelection

\* The function is applied to the list, for a provider and a model id.
SetProviderModelSelection ==
    /\ args.function = "setProviderModelSelection"
    /\ result.status = "none"
    /\ \E provider \in Range(SLIDER_PROVIDER_ORDER), nextModelId \in ListedModelIds :
          result' = SliderApplied("swap", provider, <<nextModelId>>,
                                  setProviderModelSelection(args.modelIds, provider, nextModelId))
    /\ UNCHANGED << args, rvars, dvars, cvars, avars, hvars, svars, gvars >>

InitSwap ==
    /\ RouterIdle
    /\ DiffIdle
    /\ ClientIdle
    /\ AdapterIdle
    /\ HistoryIdle
    /\ SubmissionsIdle
    /\ DragIdle
    /\ \E modelIds \in ModelIdLists :
          args = [function |-> "setProviderModelSelection", modelIds |-> modelIds]
    /\ result = [status |-> "none"]

NextSwap == SetProviderModelSelection

SpecSwap == InitSwap /\ [][NextSwap]_vars

\* --------------------- SpecStored: the stored model selection read at start

FALLBACK_MODELS == REASONING_TIERS_fast

VALID_MODEL_IDS == { AVAILABLE_MODELS[i].id : i \in 1..Len(AVAILABLE_MODELS) }

\* A JSON value: an array of entries, or a value of another type. An entry is
\* a string with its text, or a number or null.
JsonEntry(type, text) == [type |-> type, text |-> text]
JsonArray(items)      == [type |-> "array", items |-> items]
JsonNonArray(type)    == [type |-> type, items |-> <<>>]

\* The stored text: empty, not JSON, or the JSON text of a value.
RawJson(kind, value) == [kind |-> kind, value |-> value]

\* ids.filter(id => typeof id === 'string'): unknown ids stay.
RECURSIVE StringEntries(_)
StringEntries(items) ==
    IF items = <<>> THEN <<>>
    ELSE (IF Head(items).type = "string" THEN <<Head(items).text>> ELSE <<>>)
         \o StringEntries(Tail(items))

sanitizeAnyStringIds(ids) ==
    IF ids.type # "array" THEN <<>>
    ELSE LET sanitized == StringEntries(ids.items)
         IN  SelectSeq([i \in 1..Len(sanitized) |->
                            IF \E j \in 1..(i - 1) : sanitized[j] = sanitized[i]
                            THEN "" ELSE sanitized[i]],
                       LAMBDA id : id # "")

\* ids.filter(id => typeof id === 'string' && VALID_MODEL_IDS.has(id))
RECURSIVE ValidEntries(_)
ValidEntries(items) ==
    IF items = <<>> THEN <<>>
    ELSE (IF Head(items).type = "string" /\ Head(items).text \in VALID_MODEL_IDS
          THEN <<Head(items).text>> ELSE <<>>)
         \o ValidEntries(Tail(items))

\* Array.from(new Set(sanitized)): a Set keeps the order of first insertion.
RECURSIVE ArrayFromSet(_, _)
ArrayFromSet(sanitized, seen) ==
    IF sanitized = <<>> THEN <<>>
    ELSE IF Head(sanitized) \in seen THEN ArrayFromSet(Tail(sanitized), seen)
    ELSE <<Head(sanitized)>> \o ArrayFromSet(Tail(sanitized), seen \cup {Head(sanitized)})

sanitizeModelIds(ids) ==
    IF ids.type # "array" THEN <<>>
    ELSE ArrayFromSet(ValidEntries(ids.items), {})

resolveInitialModels(rawJson) ==
    IF rawJson.kind = "empty" THEN FALLBACK_MODELS
    ELSE IF rawJson.kind = "invalid" THEN FALLBACK_MODELS
    ELSE LET sanitized == sanitizeModelIds(rawJson.value)
         IN  IF Len(sanitized) > 0 THEN sanitized ELSE FALLBACK_MODELS

StoredEntries ==
    { JsonEntry("string", id) : id \in {"gpt-5.2", "claude-opus-4-6-low", "not-a-real-model"} }
    \cup { JsonEntry("number", "123"), JsonEntry("null", "") }

StoredTexts ==
    { RawJson("empty", JsonNonArray("none")), RawJson("invalid", JsonNonArray("none")) }
    \cup { RawJson("json", JsonNonArray(type)) : type \in {"object", "string", "number", "null"} }
    \cup { RawJson("json", JsonArray(items)) :
              items \in UNION { [1..n -> StoredEntries] : n \in 0..MaxIds } }

\* The stored selection is resolved.
ResolveInitialModels ==
    /\ args.function = "resolveInitialModels"
    /\ result.status = "none"
    /\ result' = [status |-> "returned", value |-> resolveInitialModels(args.rawJson)]
    /\ UNCHANGED << args, rvars, dvars, cvars, avars, hvars, svars, gvars >>

InitStored ==
    /\ RouterIdle
    /\ DiffIdle
    /\ ClientIdle
    /\ AdapterIdle
    /\ HistoryIdle
    /\ SubmissionsIdle
    /\ DragIdle
    /\ \E rawJson \in StoredTexts : args = [function |-> "resolveInitialModels", rawJson |-> rawJson]
    /\ result = [status |-> "none"]

NextStored == ResolveInitialModels

SpecStored == InitStored /\ [][NextStored]_vars

\* ------------------- SpecDrag: useDragDrop beside computeDragState

\* Drag events of one sequence.
MaxDragEvents == 4

\* hookUtils.computeDragState
computeDragState(currentCounter, delta, hasFiles) ==
    LET counter == currentCounter + delta
    IN  IF delta = 1 THEN [counter |-> counter, isDragging |-> hasFiles]
        ELSE [counter |-> counter, isDragging |-> counter > 0]

DragEvent(type, hasFiles) == [type |-> type, hasFiles |-> hasFiles]

DragFrame == UNCHANGED << rvars, dvars, cvars, avars, hvars, pvars, svars >>

\* onDragEnter: the counter goes up; a drag that carries files sets
\* isDragging.
OnDragEnter(hasFiles) ==
    /\ Len(dragEvents) < MaxDragEvents
    /\ dragCounter' = dragCounter + 1
    /\ isDragging' = IF hasFiles THEN TRUE ELSE isDragging
    /\ computed' = computeDragState(computed.counter, 1, hasFiles)
    /\ dragEvents' = Append(dragEvents, DragEvent("enter", hasFiles))
    /\ DragFrame

\* onDragLeave: the counter goes down; at 0 isDragging is cleared.
OnDragLeave(hasFiles) ==
    /\ Len(dragEvents) < MaxDragEvents
    /\ dragCounter' = dragCounter - 1
    /\ isDragging' = IF dragCounter - 1 = 0 THEN FALSE ELSE isDragging
    /\ computed' = computeDragState(computed.counter, -1, hasFiles)
    /\ dragEvents' = Append(dragEvents, DragEvent("leave", hasFiles))
    /\ DragFrame

InitDrag ==
    /\ RouterIdle
    /\ DiffIdle
    /\ ClientIdle
    /\ AdapterIdle
    /\ HistoryIdle
    /\ PureIdle
    /\ SubmissionsIdle
    /\ dragCounter = 0
    /\ isDragging = FALSE
    /\ computed = [counter |-> 0, isDragging |-> FALSE]
    /\ dragEvents = <<>>

NextDrag ==
    \/ \E hasFiles \in BOOLEAN : OnDragEnter(hasFiles)
    \/ \E hasFiles \in BOOLEAN : OnDragLeave(hasFiles)

SpecDrag == InitDrag /\ [][NextDrag]_vars

\* ------------- SpecTools: the tools of the requests of one OpenAI call

\* The model ids the route passes to streamOpenAIResponse.
OpenAIModelIds == {"gpt-5.2", "gpt-5.2-high", "gpt-5.2-pro", "gpt-5-nano"}

\* OPENAI_MODEL_HIGH, OPENAI_MODEL_PRO: unset, empty, or a model name.
OpenAIModelOverrides == {"unset", "", "gpt-5.2", "gpt-5.2-pro", "GPT-5.2-Pro", "gpt-4o"}

ToolEnvs ==
    { [DefaultEnv EXCEPT !.OPENAI_ENABLE_CODE_INTERPRETER = ci,
                         !.OPENAI_ENABLE_WEB_SEARCH = ws,
                         !.OPENAI_FORCE_DISABLE_TOOLS = off,
                         !.OPENAI_MODEL_HIGH = high,
                         !.OPENAI_MODEL_PRO = pro] :
        ci \in {"unset", "true", "Off"}, ws \in {"unset", "off"},
        off \in {"unset", "true"},
        high \in OpenAIModelOverrides, pro \in OpenAIModelOverrides }

\* streamOpenAIResponse up to its requests: the model name of the body, the
\* tools of the first request and those of the web-only retry.
BuildOpenAIRequests ==
    /\ args.function = "streamOpenAIResponse"
    /\ result.status = "none"
    /\ LET modelName == resolveOpenAIModelName(args.env, args.model)
       IN  result' = [ status |-> "built",
                       modelName |-> modelName,
                       initialTools |-> buildOpenAITools(args.env, modelName, args.model, FALSE),
                       webOnlyTools |-> buildOpenAITools(args.env, modelName, args.model, TRUE) ]
    /\ UNCHANGED << args, rvars, dvars, cvars, avars, hvars, svars, gvars >>

InitTools ==
    /\ RouterIdle
    /\ DiffIdle
    /\ ClientIdle
    /\ AdapterIdle
    /\ HistoryIdle
    /\ SubmissionsIdle
    /\ DragIdle
    /\ args \in { [function |-> "streamOpenAIResponse", env |-> e, model |-> m] :
                    e \in ToolEnvs, m \in OpenAIModelIds }
    /\ result = [status |-> "none"]

NextTools == BuildOpenAIRequests

SpecTools == InitTools /\ [][NextTools]_vars

\* ------------ SpecBytes: the Responses stream read in pieces of any size

\* Characters of the stream of one call.
MaxBytes == 4

\* The characters of the stream: `d` stands for the prefix `data: `, `x` for
\* the JSON of an answer delta, `y` for the JSON of a summary delta.
StreamChars == {"d", "x", "y", " ", "\n"}

RECURSIVE StreamsUpTo(_)
StreamsUpTo(n) ==
    IF n = 0 THEN {<<>>}
    ELSE StreamsUpTo(n - 1)
         \cup {Append(t, c) : t \in {u \in StreamsUpTo(n - 1) : Len(u) = n - 1},
                              c \in StreamChars}

\* What the loop body makes of the text of one line: the tests on
\* line.trim(), line.startsWith('data: ') and JSON.parse(line.slice(6)).
ParseSseLine(line) ==
    IF Trim(line) = <<>> THEN SseLine("blank", NoData)
    ELSE IF Head(line) # "d" THEN SseLine("other", NoData)
    ELSE IF Trim(Tail(line)) = <<"x">>
    THEN SseLine("data", DataLine("response.output_text.delta", <<"a">>))
    ELSE IF Trim(Tail(line)) = <<"y">>
    THEN SseLine("data", DataLine("response.reasoning_summary_text.delta", <<"a">>))
    ELSE MalformedLine

\* The loop body that keeps no text between reads: the text after the last
\* line feed is treated as a line of its own.
OpenAIOnBytesUnbuffered(ad, buf, value) ==
    LET lines == SplitOn(value, "\n")
        res   == OpenAIOnRead(ad, [i \in 1..Len(lines) |-> ParseSseLine(lines[i])])
    IN  [ad |-> res.ad, events |-> res.events, buffer |-> <<>>]

\* The loop body for one reader.read(): buffer += decode(value); the lines
\* are buffer.split('\n'), the last of which stays in the buffer.
OpenAIOnBytes(ad, buf, value) ==
    LET lines == SplitOn(buf \o value, "\n")
        whole == SubSeq(lines, 1, Len(lines) - 1)
        res   == OpenAIOnRead(ad, [i \in 1..Len(whole) |-> ParseSseLine(whole[i])])
    IN  [ad |-> res.ad, events |-> res.events, buffer |-> lines[Len(lines)]]

\* The characters delivered so far.
BytesRead == Len(Flatten([i \in 1..Len(feed) |-> feed[i].val]))

BytesFrame ==
    /\ UNCHANGED << call, sent, shadow, stream >>
    /\ UNCHANGED << rvars, dvars, cvars, hvars, pvars, svars, gvars >>

\* reader.read() returned the next n characters of the stream.
ReadBytes(n) ==
    /\ ast.status = "streaming"
    /\ BytesRead + n <= Len(stream)
    /\ LET value == SubSeq(stream, BytesRead + 1, BytesRead + n)
           res   == OpenAIOnBytes(ast, buffer, value)
       IN  /\ ast' = res.ad
           /\ yields' = yields \o res.events
           /\ buffer' = res.buffer
           /\ feed' = Append(feed, Delivered("read", value))
    /\ BytesFrame

\* reader.read() returned done after the last character.
BytesEnd ==
    /\ ast.status = "streaming"
    /\ BytesRead = Len(stream)
    /\ ast' = OpenAIOnEnd(ast).ad
    /\ feed' = Append(feed, Delivered("end", <<>>))
    /\ UNCHANGED << yields, buffer >>
    /\ BytesFrame

InitBytes ==
    /\ RouterIdle
    /\ DiffIdle
    /\ ClientIdle
    /\ HistoryIdle
    /\ PureIdle
    /\ SubmissionsIdle
    /\ DragIdle
    /\ call = [kind |-> "openai", model |-> "gpt-5.2"]
    /\ ast = [OpenAIStart EXCEPT !.status = "streaming"]
    /\ yields = <<>>
    /\ feed = <<>>
    /\ sent = <<>>
    /\ shadow = [ad |-> [status |-> "none"], yields |-> <<>>]
    /\ stream \in StreamsUpTo(MaxBytes)
    /\ buffer = <<>>

NextBytes ==
    \/ \E n \in 1..MaxBytes : ReadBytes(n)
    \/ BytesEnd

SpecBytes == InitBytes /\ [][NextBytes]_vars

\* --------------- SpecSubmissions: submissions in two sessions of one page

\* Data lines the submissions read, all together.
MaxLines == 3

SubmissionIds == {1, 2}

Session(id, qs) == [id |-> id, isGeneratingTitle |-> FALSE, questions |-> qs]

\* The ids of two sessions that exist when the page is opened.
OpenSessions == <<1, 2>>

IdleSubmission ==
    [ step |-> "idle", execSessionId |-> 0, questionId |-> 0, lines |-> 0,
      chunks |-> <<>>, modelStatus |-> <<>>, answerByModel |-> <<>>, reasoningByModel |-> <<>> ]

\* isCurrentSessionGenerating
isGenerating(sessionId) ==
    \E i \in 1..Len(generatingSessionIds) : generatingSessionIds[i] = sessionId

\* SessionContext.addQuestion
addQuestion(ss, questionId, as, sessionToUpdate) ==
    [i \in DOMAIN ss |->
        IF ss[i].id = sessionToUpdate
        THEN [ss[i] EXCEPT !.questions = Append(@, [id |-> questionId, answers |-> as])]
        ELSE ss[i]]

\* The answers of the question in the session, <<>> when either is absent.
AnswersOf(ss, questionId, sessionId) ==
    IF \E i \in DOMAIN ss : /\ ss[i].id = sessionId
                            /\ \E k \in DOMAIN ss[i].questions :
                                  ss[i].questions[k].id = questionId
    THEN LET i == CHOOSE i \in DOMAIN ss : ss[i].id = sessionId
             k == CHOOSE k \in DOMAIN ss[i].questions : ss[i].questions[k].id = questionId
         IN  ss[i].questions[k].answers
    ELSE <<>>

\* updateAnswer that writes to the session shown, whatever session the
\* submission was made in.
updateQuestionOfCurrent(ss, questionId, as, sessionId) ==
    [i \in DOMAIN ss |->
        IF ss[i].id = currentSessionId
        THEN [ss[i] EXCEPT !.questions =
                 [k \in DOMAIN @ |-> IF @[k].id = questionId
                                     THEN [@[k] EXCEPT !.answers = as]
                                     ELSE @[k]]]
        ELSE ss[i]]

\* The two maps of SessionContext.updateAnswer, with the question's answers
\* after the update: a session or a question that is not listed is skipped.
updateQuestion(ss, questionId, as, sessionId) ==
    [i \in DOMAIN ss |->
        IF ss[i].id = sessionId
        THEN [ss[i] EXCEPT !.questions =
                 [k \in DOMAIN @ |-> IF @[k].id = questionId
                                     THEN [@[k] EXCEPT !.answers = as]
                                     ELSE @[k]]]
        ELSE ss[i]]

\* SessionContext.deleteSession
deleteSession(ss, cur, sessionId) ==
    LET remaining == SelectSeq(ss, LAMBDA x : x.id # sessionId)
    IN  [ sessions |-> remaining,
          currentSessionId |-> IF cur # sessionId THEN cur
                               ELSE IF Len(remaining) > 0 THEN remaining[Len(remaining)].id
                               ELSE 0 ]

\* The data lines a response may carry for the selected models.
SubmissionEnvelopes ==
    { [type |-> t, modelId |-> m, content |-> <<>>, error |-> <<>>] :
        t \in {"start", "done"}, m \in Range(selectedModels) }
    \cup { [type |-> t, modelId |-> m, content |-> <<"a">>, error |-> <<>>] :
             t \in {"chunk", "reasoning_summary_chunk"}, m \in Range(selectedModels) }
    \cup { [type |-> "error", modelId |-> m, content |-> <<>>, error |-> <<"e">>] :
             m \in Range(selectedModels) }

ClientFrame ==
    /\ UNCHANGED << selectedModels, step, modelStatus, answerByModel, reasoningByModel,
                    stored, received, outcome, storage, lastLoad >>
    /\ UNCHANGED << rvars, dvars, avars, hvars, pvars, gvars >>

\* selectSession of the other listed session, and the page's effect on the
\* change of currentSessionId: resetForNewSession.
SwitchSession ==
    /\ \E i \in DOMAIN sessions :
          /\ sessions[i].id # currentSessionId
          /\ currentSessionId' = sessions[i].id
    /\ answers' = <<>>
    /\ currentQuestionId' = 0
    /\ UNCHANGED << submissions, sessions, generatingSessionIds, abortControllers >>
    /\ ClientFrame

\* deleteSession on one of the two sessions, and the page's effect when the
\* current session changes with it.
DeleteSession ==
    /\ Len(sessions) = Len(OpenSessions)
    /\ \E i \in DOMAIN sessions :
          LET d == deleteSession(sessions, currentSessionId, sessions[i].id)
          IN  /\ sessions' = d.sessions
              /\ currentSessionId' = d.currentSessionId
              /\ IF d.currentSessionId # currentSessionId
                 THEN answers' = <<>> /\ currentQuestionId' = 0
                 ELSE UNCHANGED << answers, currentQuestionId >>
    /\ UNCHANGED << submissions, generatingSessionIds, abortControllers >>
    /\ ClientFrame

\* submitQuestion up to the read loop, in the current session. The
\* question's id is the submission's number.
StartSubmission(s) ==
    /\ submissions[s].step = "idle"
    /\ \A r \in SubmissionIds : r < s => submissions[r].step # "idle"
    /\ selectedModels # <<>>
    /\ submissions' = [submissions EXCEPT ![s] =
          [ step |-> "read", execSessionId |-> currentSessionId, questionId |-> s,
            lines |-> 0,
            chunks           |-> [m \in Range(selectedModels) |-> <<>>],
            modelStatus      |-> [m \in Range(selectedModels) |-> "pending"],
            answerByModel    |-> [m \in Range(selectedModels) |-> <<>>],
            reasoningByModel |-> [m \in Range(selectedModels) |-> <<>>] ]]
    /\ abortControllers' = [abortControllers EXCEPT ![currentSessionId] = s]
    /\ generatingSessionIds' = Append(generatingSessionIds, currentSessionId)
    /\ sessions' = addQuestion(sessions, s, initialAnswers, currentSessionId)
    /\ currentQuestionId' = s
    /\ answers' = initialAnswers
    /\ UNCHANGED currentSessionId
    /\ ClientFrame

\* The send button and the Enter key: not while the session is generating.
SubmitQuestion(s) ==
    /\ ~isGenerating(currentSessionId)
    /\ StartSubmission(s)

\* The answers the page shows for a question of the current session.
ShownAnswers(q) ==
    IF q.id = currentQuestionId /\ answers # <<>> THEN answers ELSE q.answers

\* AnswerPanel's Retry button: shown under answers that have all ended, one
\* of them with an error; handleRetry calls submitQuestion.
RetryQuestion(s) ==
    /\ \E i \in DOMAIN sessions :
          /\ sessions[i].id = currentSessionId
          /\ \E k \in DOMAIN sessions[i].questions :
                LET shown == ShownAnswers(sessions[i].questions[k])
                IN  /\ DOMAIN shown # {}
                    /\ \A a \in DOMAIN shown : Terminal(shown[a].status)
                    /\ \E a \in DOMAIN shown : shown[a].status = "error"
    /\ StartSubmission(s)

\* The locals and the question of submission s change; `answers` is the one
\* state of the hook. chunks keeps, per model, the contents of the chunk
\* lines the submission has read, in the order of arrival. ended: the finally of submitQuestion runs.
SubmissionStep(s, sub, liveAnswers, questionAnswers) ==
    /\ submissions' = [submissions EXCEPT ![s] = sub]
    /\ answers' = liveAnswers
    /\ sessions' = updateQuestion(sessions, sub.questionId, questionAnswers, sub.execSessionId)
    /\ IF sub.step = "ended"
       THEN /\ abortControllers' = [abortControllers EXCEPT ![sub.execSessionId] = 0]
            /\ generatingSessionIds' =
                  SelectSeq(generatingSessionIds, LAMBDA id : id # sub.execSessionId)
       ELSE UNCHANGED << abortControllers, generatingSessionIds >>
    /\ UNCHANGED << currentSessionId, currentQuestionId >>
    /\ ClientFrame

\* The data lines the submissions have read, all together.
SubmissionLines == submissions[1].lines + submissions[2].lines

\* One data line of the response of submission s goes through the dispatch.
ReadLine(s, data) ==
    /\ submissions[s].step = "read"
    /\ SubmissionLines < MaxLines
    /\ LET sub  == [submissions[s] EXCEPT
                       !.lines = @ + 1,
                       !.chunks[data.modelId] =
                           IF data.type = "chunk" THEN Append(@, data.content) ELSE @]
           m    == data.modelId
           mine == AnswersOf(sessions, sub.questionId, sub.execSessionId)
       IN  CASE data.type = "start" ->
                  SubmissionStep(s, [sub EXCEPT !.modelStatus[m] = "streaming"],
                                 setAnswer(answers, m, [status |-> "streaming"]),
                                 updateAnswer(mine, m, [status |-> "streaming"]))
             [] data.type = "reasoning_summary_chunk" /\ data.content # <<>> ->
                  SubmissionStep(s, [sub EXCEPT !.reasoningByModel[m] = @ \o data.content],
                                 [a \in DOMAIN answers |->
                                     IF a = m
                                     THEN [answers[a] EXCEPT !.reasoningSummary = @ \o data.content]
                                     ELSE answers[a]],
                                 mine)
             [] data.type = "chunk" ->
                  SubmissionStep(s, [sub EXCEPT !.answerByModel[m] = @ \o data.content],
                                 [a \in DOMAIN answers |->
                                     IF a = m
                                     THEN [answers[a] EXCEPT !.content = @ \o data.content]
                                     ELSE answers[a]],
                                 mine)
             [] data.type = "done" ->
                  SubmissionStep(s, [sub EXCEPT !.modelStatus[m] = "done"],
                                 setAnswer(answers, m, [status |-> "done"]),
                                 updateAnswer(mine, m,
                                     [status |-> "done",
                                      content |-> sub.answerByModel[m],
                                      reasoningSummary |-> sub.reasoningByModel[m]]))
             [] data.type = "error" ->
                  SubmissionStep(s, [sub EXCEPT !.modelStatus[m] = "error"],
                                 setAnswer(answers, m, [status |-> "error", error |-> data.error]),
                                 updateAnswer(mine, m,
                                     [status |-> "error", error |-> data.error,
                                      content |-> sub.answerByModel[m],
                                      reasoningSummary |-> sub.reasoningByModel[m]]))
             [] OTHER -> SubmissionStep(s, sub, answers, mine)

\* reader.read() of submission s returned done: the finally runs.
ReadEnds(s) ==
    /\ submissions[s].step = "read"
    /\ SubmissionStep(s, [submissions[s] EXCEPT !.step = "ended"], answers,
                      AnswersOf(sessions, submissions[s].questionId,
                                submissions[s].execSessionId))

\* The catch of submission s: `to` is "done" for the AbortError and "error"
\* for any other error.
SubmissionCaught(s, to, errorMessage) ==
    LET sub  == submissions[s]
        mine == AnswersOf(sessions, sub.questionId, sub.execSessionId)
    IN  SubmissionStep(s,
            [sub EXCEPT !.step = "ended",
                        !.modelStatus = [m \in DOMAIN sub.modelStatus |->
                                            IF Terminal(sub.modelStatus[m]) THEN sub.modelStatus[m]
                                            ELSE to]],
            [a \in DOMAIN answers |->
                IF Terminal(answers[a].status) THEN answers[a]
                ELSE Merge(answers[a], [status |-> to, error |-> errorMessage])],
            [a \in DOMAIN mine |->
                IF Terminal(sub.modelStatus[a]) THEN mine[a]
                ELSE Merge(mine[a],
                           [status |-> to, error |-> errorMessage,
                            content |-> sub.answerByModel[a],
                            reasoningSummary |-> sub.reasoningByModel[a]])])

\* The pending read of submission s rejects with a network error.
ReadRejects(s) ==
    /\ submissions[s].step = "read"
    /\ SubmissionCaught(s, "error", <<"e">>)

\* handleStop: the controller registered for the session shown is aborted;
\* the read of its submission rejects with an AbortError if it is pending.
StopSession ==
    /\ currentSessionId # 0
    /\ abortControllers[currentSessionId] # 0
    /\ submissions[abortControllers[currentSessionId]].step = "read"
    /\ SubmissionCaught(abortControllers[currentSessionId], "done", <<>>)

InitSubmissions ==
    /\ RouterIdle
    /\ DiffIdle
    /\ AdapterIdle
    /\ HistoryIdle
    /\ PureIdle
    /\ selectedModels = <<"gpt-5.2">>
    /\ step = "idle"
    /\ modelStatus = <<>>
    /\ answerByModel = <<>>
    /\ reasoningByModel = <<>>
    /\ answers = <<>>
    /\ stored = <<>>
    /\ received = <<>>
    /\ outcome = "none"
    /\ currentSessionId = OpenSessions[1]
    /\ currentQuestionId = 0
    /\ submissions = [s \in SubmissionIds |-> IdleSubmission]
    /\ sessions = [i \in DOMAIN OpenSessions |-> Session(OpenSessions[i], <<>>)]
    /\ generatingSessionIds = <<>>
    /\ abortControllers = [id \in Range(OpenSessions) |-> 0]
    /\ storage = <<>>
    /\ lastLoad = <<>>
    /\ DragIdle

NextSubmissions ==
    \/ SwitchSession
    \/ DeleteSession
    \/ \E s \in SubmissionIds : SubmitQuestion(s)
    \/ \E s \in SubmissionIds : RetryQuestion(s)
    \/ \E s \in SubmissionIds, data \in SubmissionEnvelopes : ReadLine(s, data)
    \/ \E s \in SubmissionIds : ReadEnds(s)
    \/ \E s \in SubmissionIds : ReadRejects(s)
    \/ StopSession

SpecSubmissions == InitSubmissions /\ [][NextSubmissions]_vars

\* ------------- SpecSessions: the session list, its storage and the reload

\* Sessions listed at a time.
MaxSessions == 2

\* Writes of the sessions that localStorage refuses in one run.
MaxFailedWrites == 1

\* Sessions that hold a question at a time.
MaxQuestions == 1

\* The ids crypto.randomUUID may give.
SessionIdPool == 1..(MaxSessions + 1)

SessionModel == "gpt-5.2"

\* normalizeSessions without the status of the answers.
normalizeTitlesOnly(ss) ==
    [i \in DOMAIN ss |-> [ss[i] EXCEPT !.isGeneratingTitle = FALSE]]

normalizeSessions(ss) ==
    [i \in DOMAIN ss |->
        [ id |-> ss[i].id,
          isGeneratingTitle |-> FALSE,
          questions |->
              [k \in DOMAIN ss[i].questions |->
                  [ id |-> ss[i].questions[k].id,
                    answers |->
                        [m \in DOMAIN ss[i].questions[k].answers |->
                            LET a == ss[i].questions[k].answers[m]
                            IN  [a EXCEPT !.status =
                                    IF a.status \in {"streaming", "pending"} THEN "done"
                                    ELSE a.status]] ]] ]]

\* The storage as the page finds it: no failed write so far.
EmptyStorage == [sessions |-> <<>>, currentSessionId |-> 0, failedWrites |-> 0]

\* An item that is absent and the text `[]` both give no sessions.
loadFromStorage(st) ==
    IF st.sessions = <<>> THEN [sessions |-> <<>>, currentSessionId |-> 0]
    ELSE [sessions |-> normalizeSessions(st.sessions), currentSessionId |-> st.currentSessionId]

\* The effect on `sessions`: setItem of the list with the title flags
\* cleared, or, when setItem throws, nothing (the catch is empty).
SessionsWritten(st, ss) ==
    { [st EXCEPT !.sessions = [i \in DOMAIN ss |-> [ss[i] EXCEPT !.isGeneratingTitle = FALSE]]] }
    \cup (IF st.failedWrites < MaxFailedWrites
          THEN { [st EXCEPT !.failedWrites = @ + 1] } ELSE {})

\* The effect on `currentSessionId`: setItem, or removeItem for null.
CurrentWritten(st, id) == [st EXCEPT !.currentSessionId = id]

SessionsFrame ==
    /\ UNCHANGED << currentQuestionId, submissions, generatingSessionIds, abortControllers >>
    /\ UNCHANGED << rvars, dvars, cvars, avars, hvars, pvars, gvars >>

\* The state changed after the hydration: both effects run.
Persisted ==
    /\ storage' \in { CurrentWritten(w, currentSessionId') :
                        w \in SessionsWritten(storage, sessions') }
    /\ lastLoad' = [fresh |-> FALSE, raw |-> <<>>]
    /\ SessionsFrame

ListedIds(ss) == {ss[i].id : i \in DOMAIN ss}

\* The ids in use, in the page and in storage.
IdsInUse ==
    ListedIds(sessions) \cup ListedIds(storage.sessions)
        \cup {currentSessionId, storage.currentSessionId}

\* createSession: the id is new; which one it is does not matter, so the
\* first of the pool that is not in use is taken.
CreateSession ==
    /\ Len(sessions) < MaxSessions
    /\ \E id \in SessionIdPool \ IdsInUse :
          /\ \A other \in SessionIdPool \ IdsInUse : id <= other
          /\ sessions' = Append(sessions, Session(id, <<>>))
          /\ currentSessionId' = id
    /\ Persisted

\* selectSession of a listed session: only the effect on currentSessionId runs.
SelectSession ==
    /\ \E id \in ListedIds(sessions) :
          /\ id # currentSessionId
          /\ currentSessionId' = id
    /\ UNCHANGED sessions
    /\ storage' = CurrentWritten(storage, currentSessionId')
    /\ lastLoad' = [fresh |-> FALSE, raw |-> <<>>]
    /\ SessionsFrame

\* deleteSession of a listed session
DeleteListedSession ==
    /\ \E id \in ListedIds(sessions) :
          LET d == deleteSession(sessions, currentSessionId, id)
          IN  /\ sessions' = d.sessions
              /\ currentSessionId' = d.currentSessionId
    /\ Persisted

\* The questions of all sessions.
QuestionsAsked(ss) == Cardinality({i \in DOMAIN ss : ss[i].questions # <<>>})

\* addQuestion to the current session, with one pending answer.
AddQuestion ==
    /\ currentSessionId # 0
    /\ QuestionsAsked(sessions) < MaxQuestions
    /\ AnswersOf(sessions, 1, currentSessionId) = <<>>
    /\ sessions' = addQuestion(sessions, 1,
                               [m \in {SessionModel} |-> [status |-> "pending", content |-> <<>>]],
                               currentSessionId)
    /\ UNCHANGED currentSessionId
    /\ Persisted

\* The updates of a stream: it starts and has content, is done, or fails.
AnswerUpdates ==
    { [status |-> "streaming", content |-> <<"a">>],
      [status |-> "done", content |-> <<"a">>],
      [status |-> "error", content |-> <<>>] }

\* updateAnswer for the answer of a listed session.
UpdateAnswer(status, content) ==
    /\ \E id \in ListedIds(sessions) :
          /\ AnswersOf(sessions, 1, id) # <<>>
          /\ sessions' = updateQuestion(sessions, 1,
                             [m \in {SessionModel} |-> [status |-> status, content |-> content]],
                             id)
          /\ sessions' # sessions
    /\ UNCHANGED currentSessionId
    /\ Persisted

\* setSessionGeneratingTitle, for the session a title is requested for.
SetSessionGeneratingTitle(flag) ==
    /\ \E id \in ListedIds(sessions) :
          /\ AnswersOf(sessions, 1, id) # <<>>
          /\ sessions' = [i \in DOMAIN sessions |->
                          IF sessions[i].id = id
                          THEN [sessions[i] EXCEPT !.isGeneratingTitle = flag]
                          ELSE sessions[i]]
    /\ sessions' # sessions
    /\ UNCHANGED currentSessionId
    /\ Persisted

\* The page is loaded again. The first pass of the effects runs with the
\* initial state (no sessions, no current session) once the hydration has
\* set isHydrated; the second pass runs when the hydration found sessions.
Reload ==
    LET saved  == loadFromStorage(storage)
        first  == { CurrentWritten(w, 0) : w \in SessionsWritten(storage, <<>>) }
        second == UNION { { CurrentWritten(w, saved.currentSessionId) :
                              w \in SessionsWritten(f, saved.sessions) } : f \in first }
    IN  /\ sessions' = saved.sessions
        /\ currentSessionId' = saved.currentSessionId
        /\ storage' \in (IF saved.sessions # <<>> THEN second ELSE first)
        /\ lastLoad' = [fresh |-> TRUE, raw |-> storage.sessions]
        /\ SessionsFrame

InitSessions ==
    /\ RouterIdle
    /\ DiffIdle
    /\ ClientIdle
    /\ AdapterIdle
    /\ HistoryIdle
    /\ PureIdle
    /\ DragIdle
    /\ currentSessionId = 0
    /\ currentQuestionId = 0
    /\ submissions = <<>>
    /\ sessions = <<>>
    /\ generatingSessionIds = <<>>
    /\ abortControllers = <<>>
    /\ storage = EmptyStorage
    /\ lastLoad = [fresh |-> TRUE, raw |-> <<>>]

NextSessions ==
    \/ CreateSession
    \/ SelectSession
    \/ DeleteListedSession
    \/ AddQuestion
    \/ \E update \in AnswerUpdates : UpdateAnswer(update.status, update.content)
    \/ \E flag \in BOOLEAN : SetSessionGeneratingTitle(flag)
    \/ Reload

SpecSessions == InitSessions /\ [][NextSessions]_vars

\* ------------------------------------------- properties of the adapters

IsAdapterCall == call.kind \in {"openai", "gemini"}

DoneAt  == {i \in 1..Len(yields) : yields[i].type = "reasoning_summary_done"}
DeltaAt == {i \in 1..Len(yields) : yields[i].type = "reasoning_summary_delta"}

\* The lines of the reads delivered so far, in order.
RECURSIVE LinesUpTo(_)
LinesUpTo(n) ==
    IF n = 0 THEN <<>>
    ELSE LinesUpTo(n - 1) \o (IF feed[n].what = "read" THEN feed[n].val ELSE <<>>)

LinesRead == LinesUpTo(Len(feed))

\* C11: within one call of an adapter no reasoning_summary_delta is yielded
\* after reasoning_summary_done: every reasoning delta precedes the done
\* signal.
C11_ReasoningDeltasPrecedeDone ==
    IsAdapterCall => \A i \in DoneAt : \A j \in DeltaAt : j < i

\* C12: whatever the provider delivers, one call of an adapter yields
\* reasoning_summary_done at most once.
C12_ReasoningDoneAtMostOnce ==
    IsAdapterCall => Cardinality(DoneAt) <= 1

\* Lines that reach a statement yielding reasoning_summary_done.
ClosingLine(l) ==
    /\ l.kind = "data"
    /\ \/ l.data.type = "response.reasoning_summary_text.done"
       \/ l.data.type = "response.reasoning_summary_part.done" /\ l.data.text # <<>>
       \/ l.data.type = "response.output_item.done" /\ l.data.hasReasoningItem

\* The done event was yielded and a second closing line arrived after it.
C12_Witness ==
    /\ call.kind = "openai"
    /\ Cardinality(DoneAt) = 1
    /\ Cardinality({k \in 1..Len(LinesRead) : ClosingLine(LinesRead[k])}) >= 2

\* A line that carries a non-empty reasoning text.
CarriesReasoningText(l) ==
    /\ l.kind = "data"
    /\ \/ /\ l.data.type \in {"response.reasoning_summary_text.delta",
                              "response.reasoning_summary_part.done",
                              "response.reasoning_summary_text.done"}
          /\ l.data.text # <<>>
       \/ /\ l.data.hasReasoningItem
          /\ \E k \in 1..Len(l.data.summary) :
                l.data.summary[k].kind # "junk" /\ l.data.summary[k].value # <<>>

ReasoningTextReceived ==
    \/ \E k \in 1..Len(LinesRead) : CarriesReasoningText(LinesRead[k])
    \/ \E i \in 1..Len(feed) :
          /\ feed[i].what = "chunk"
          /\ \E k \in 1..Len(feed[i].val.parts) :
                feed[i].val.parts[k].thought /\ feed[i].val.parts[k].text # <<>>

\* C13: a call that never received a non-empty reasoning text yields no
\* reasoning event, neither reasoning_summary_delta nor
\* reasoning_summary_done.
C13_NoReasoningNoEvents ==
    (IsAdapterCall /\ ~ReasoningTextReceived) => (DoneAt = {} /\ DeltaAt = {})


\* The reasoning text a consumer assembles from the yields.
RECURSIVE ReasoningTextUpTo(_)
ReasoningTextUpTo(n) ==
    IF n = 0 THEN <<>>
    ELSE ReasoningTextUpTo(n - 1)
         \o (IF yields[n].type = "reasoning_summary_delta" THEN yields[n].content ELSE <<>>)

ReasoningText == ReasoningTextUpTo(Len(yields))

\* The full summary text a line carries: part.text, text, or the summary of
\* the reasoning item of a done/completed payload.
FullTextOf(l) ==
    IF l.kind # "data" THEN <<>>
    ELSE IF l.data.type \in {"response.reasoning_summary_part.done",
                             "response.reasoning_summary_text.done"}
    THEN l.data.text
    ELSE IF l.data.type \in {"response.output_item.done", "response.completed"}
            /\ l.data.hasReasoningItem
    THEN extractReasoningSummaryText(l.data.summary)
    ELSE <<>>

\* The summary the provider has sent with the first n lines: the deltas so
\* far, or the first full text when no delta came before it.
RECURSIVE SummarySent(_)
SummarySent(n) ==
    IF n = 0 THEN <<>>
    ELSE LET before == SummarySent(n - 1)
             l      == LinesRead[n]
         IN  IF l.kind = "data" /\ l.data.type = "response.reasoning_summary_text.delta"
             THEN before \o l.data.text
             ELSE IF before = <<>> THEN FullTextOf(l)
             ELSE before

\* Every full text repeats the summary sent before it (one summary, sent by
\* more than one path).
SamePathsSameSummary ==
    \A n \in 1..Len(LinesRead) :
        (FullTextOf(LinesRead[n]) # <<>> /\ SummarySent(n - 1) # <<>>)
            => FullTextOf(LinesRead[n]) = SummarySent(n - 1)

\* C14: of the summary paths of the OpenAI adapter (text delta, part done,
\* text done, reasoning item of a done/completed payload) the first
\* non-empty one wins and no later path yields the captured text again: when
\* the paths carry one summary, the yielded reasoning text is that summary
\* once, without duplicated content.
C14_SummaryYieldedOnce ==
    (call.kind = "openai" /\ SamePathsSameSummary)
        => ReasoningText \in {<<>>, SummarySent(Len(LinesRead))}


\* The responses the call has received, in order.
ResponsesAt == {i \in 1..Len(feed) : feed[i].what = "response"}

\* The first response when the first request was answered at all.
FirstAnswered == Len(feed) >= 1 /\ feed[1].what = "response"

\* The retry's response when the retry was answered.
RetryAnswered == Len(sent) = 2 /\ Len(feed) >= 2 /\ feed[2].what = "response"

\* Both keyword heuristics match a 4xx response.
MatchesBothHeuristics(r) ==
    r.status >= 400 /\ r.status < 500 /\ r.body.toolHint /\ r.body.compatHint

\* The web-search-only tool set: the initial one without the code interpreter.
WebOnlyOfInitial == SelectSeq(sent[1], LAMBDA t : t = "web_search")

EndsWithErrorAndNoEvents == ast.status = "thrown" /\ yields = <<>>

\* The statement about the retry, for the condition `retryDue` on the first
\* response.
RetryRule(retryDue) ==
    /\ Len(sent) <= 2 /\ ast.requests = Len(sent)
    /\ (FirstAnswered /\ ~ResponseOk(feed[1].val)) =>
          IF retryDue
          THEN Len(sent) = 2 /\ sent[2] = WebOnlyOfInitial
          ELSE Len(sent) = 1 /\ EndsWithErrorAndNoEvents
    /\ (FirstAnswered /\ ResponseOk(feed[1].val)) => Len(sent) = 1
    /\ (RetryAnswered /\ ~ResponseOk(feed[2].val)) => EndsWithErrorAndNoEvents

\* C15: the OpenAI adapter sends at most two requests; a first 4xx response
\* matching both keyword heuristics, with a web-search-only tool set that
\* differs from the initial one, is retried exactly once with the
\* web-search-only tool set; any other non-OK first response and any non-OK
\* retry response ends the call with an error and no events.
C15_RetryWhenToolSetsDiffer ==
    call.kind = "openai" =>
        RetryRule(/\ FirstAnswered
                  /\ MatchesBothHeuristics(feed[1].val)
                  /\ WebOnlyOfInitial # sent[1])

\* C15 as amended: the retry also needs the web-search-only tool set to have
\* a tool; a matching 4xx response while web search is off is terminal.
C15_RetryWhenWebOnlySetUsable ==
    call.kind = "openai" =>
        RetryRule(/\ FirstAnswered
                  /\ MatchesBothHeuristics(feed[1].val)
                  /\ WebOnlyOfInitial # sent[1]
                  /\ WebOnlyOfInitial # <<>>)

\* The retry was sent with web search only and its response streamed events.
C15_Witness ==
    /\ call.kind = "openai"
    /\ Len(sent) = 2
    /\ sent[1] = <<"web_search", "code_interpreter">>
    /\ sent[2] = <<"web_search">>
    /\ RetryAnswered
    /\ yields # <<>>


\* C16: a data line whose payload is not JSON is skipped: the OpenAI adapter
\* yields nothing for it, does not fail, and treats every later line as it
\* would had the malformed line not been in the stream (shadow is the same
\* call fed the same stream without its malformed lines).
C16_MalformedLineSkipped ==
    call.kind = "openai" => (ast = shadow.ad /\ yields = shadow.yields)

\* A malformed line was read, and a later line of the stream yielded events.
C16_Witness ==
    /\ call.kind = "openai"
    /\ ast.status = "streaming"
    /\ \E k \in 1..Len(LinesRead) :
          /\ LinesRead[k].kind = "malformed"
          /\ \E j \in (k + 1)..Len(LinesRead) : ClosingLine(LinesRead[j])
    /\ DoneAt # {}
    /\ DeltaAt # {}


\* ------------------------------------- properties of the Claude adapter

PauseTurnStop == ClaudeSse("message_stop", <<"pause_turn">>)

\* The step delivers the SSE event `ev` to the call.
SseDelivered(ev) ==
    /\ Len(feed') = Len(feed) + 1
    /\ feed'[Len(feed')].what = "sse"
    /\ feed'[Len(feed')].val = ev

C17_Step ==
    call.kind = "claude" =>
        /\ IF SseDelivered(PauseTurnStop)
           THEN /\ ast'.pauseTurns = ast.pauseTurns + 1
                /\ IF ast'.pauseTurns <= ast.maxPauseTurns
                   THEN /\ ast'.status = "requesting"
                        /\ sent' = Append(sent, Append(sent[Len(sent)], ast.blocks))
                   ELSE /\ ast'.status = "thrown"
                        /\ ast'.error.limit = ast.maxPauseTurns
                        /\ sent' = sent
           ELSE /\ ast'.pauseTurns = ast.pauseTurns
                /\ sent' = sent
        /\ ast'.pauseTurns <= ast'.maxPauseTurns + 1
        /\ Len(sent') <= ast'.maxPauseTurns + 1

\* C17: the round counter of a Claude call grows by exactly one with each
\* response that ends with stop_reason pause_turn and with nothing else;
\* within CLAUDE_TOOL_PAUSE_TURN_MAX the request is sent again with the
\* round's assistant content appended, beyond it the call ends with an error
\* naming the limit, so the rounds are bounded.
C17_PauseTurnRounds == [][C17_Step]_vars

\* Two rounds were resumed with content appended, and the third pause ended
\* the call.
C17_Witness ==
    /\ call.kind = "claude"
    /\ ast.maxPauseTurns = 2
    /\ ast.pauseTurns = 3
    /\ ast.status = "thrown"
    /\ ast.error.limit = 2
    /\ Len(sent) = 3
    /\ sent[3][1] # <<>>

\* C18: over all the pause_turn rounds of a Claude call,
\* reasoning_summary_done is yielded exactly once when reasoning content was
\* seen, not before the first completion that is not a pause_turn (or the
\* end of the generator), and never when no reasoning content was seen.
C18_ReasoningDoneOnceAtCompletion ==
    call.kind = "claude" =>
        /\ Cardinality(DoneAt) <= 1
        /\ DeltaAt = {} => DoneAt = {}
        /\ ast.status # "returned" => DoneAt = {}
        /\ (ast.status = "returned" /\ DeltaAt # {}) => DoneAt = {Len(yields)}

\* Reasoning was seen in a round that paused, and a later round completed.
C18_Witness ==
    /\ call.kind = "claude"
    /\ ast.status = "returned"
    /\ ast.pauseTurns >= 1
    /\ \E i \in 1..Len(ast.messages) :
          \E k \in 1..Len(ast.messages[i]) : ast.messages[i][k].type = "thinking"
    /\ DoneAt = {Len(yields)}

\* The content deltas delivered before position n of the feed.
ContentBefore(n) ==
    Cardinality({i \in 1..(n - 1) :
                    /\ feed[i].what = "sse"
                    /\ feed[i].val.event \in {"text_delta", "thinking_delta"}})

\* C19: an `error` event in the SSE body of a Claude call makes the call fail
\* with the message `Claude stream error: <provider message>`; the event is
\* not skipped like a malformed payload, and nothing is yielded for it.
C19_StreamErrorSurfaced ==
    call.kind = "claude" =>
        \A i \in 1..Len(feed) :
            (feed[i].what = "sse" /\ feed[i].val.event = "error") =>
                /\ i = Len(feed)
                /\ ast.status = "thrown"
                /\ ast.error.text = <<"Claude stream error: ">> \o feed[i].val.text
                /\ Len(yields) = ContentBefore(i)

\* The stream of the test: the `error` event is the first of the body.
C19_Witness ==
    /\ call.kind = "claude"
    /\ Len(feed) = 2
    /\ feed[2].what = "sse"
    /\ feed[2].val = ClaudeSse("error", <<"Overloaded">>)
    /\ ast.error.text = <<"Claude stream error: ", "Overloaded">>
    /\ yields = <<>>


\* ---------------------------------------- properties of the history

\* The turns of the request's history the route keeps: within the window,
\* with a string as user text, and with a text or an image.
KeptAt ==
    {i \in 1..Len(history) :
        /\ i > Len(history) - MAX_HISTORY_TURNS
        /\ history[i].userText.kind = "string"
        /\ (Trim(history[i].userText.text) # <<>>
            \/ \E k \in 1..Len(history[i].userImages) : Trim(history[i].userImages[k]) # <<>>)}

\* modelAnswers[M] of turn i is a string that is not blank.
HasAnswerAt(i, M) ==
    /\ history[i].modelAnswers[M].kind = "string"
    /\ Trim(history[i].modelAnswers[M].text) # <<>>

\* The first MAX_CHARS_PER_TURN characters of a text.
FirstChars(t) ==
    IF Len(t) <= MAX_CHARS_PER_TURN THEN t ELSE [i \in 1..MAX_CHARS_PER_TURN |-> t[i]]

\* The answers of M the kept turns hold (their first MAX_CHARS_PER_TURN
\* characters), in the order of the turns.
RECURSIVE OwnAnswersUpTo(_, _)
OwnAnswersUpTo(n, M) ==
    IF n = 0 THEN <<>>
    ELSE OwnAnswersUpTo(n - 1, M)
         \o (IF n \in KeptAt /\ HasAnswerAt(n, M)
             THEN <<FirstChars(history[n].modelAnswers[M].text)>> ELSE <<>>)

IsAssistantMessage(m) == m.role \in {"assistant", "model"}

\* The texts of the assistant messages of the rebuilt history, in order.
AssistantTexts ==
    LET at == SelectSeq(rebuilt.messages, IsAssistantMessage)
    IN  [k \in 1..Len(at) |-> at[k].text]

RECURSIVE KeptUpTo(_)
KeptUpTo(n) ==
    IF n = 0 THEN <<>>
    ELSE KeptUpTo(n - 1) \o (IF n \in KeptAt THEN <<n>> ELSE <<>>)

IsPrefixOf(a, b) == Len(a) <= Len(b) /\ \A i \in 1..Len(a) : a[i] = b[i]

\* `a` is `b` cut at the character budget.
IsClipOf(a, b) ==
    /\ Len(a) <= MAX_CHARS_PER_TURN
    /\ IsPrefixOf(a, b)
    /\ Len(b) <= MAX_CHARS_PER_TURN => a = b

\* C21: the history handed to an adapter has at most MAX_HISTORY_TURNS (8)
\* turns, taken from the last 8 entries of the submitted history in their
\* order; each user text and each model answer in it has at most
\* MAX_CHARS_PER_TURN (12000) characters, is a prefix of the submitted text,
\* and is the submitted text when that has 12000 characters or fewer.
C21_HistoryWindowAndClip ==
    (call.kind = "history" /\ rebuilt.status = "built") =>
        LET kept == KeptUpTo(Len(history))
            out  == rebuilt.sanitized
        IN  /\ Len(out) <= MAX_HISTORY_TURNS
            /\ Len(out) = Len(kept)
            /\ \A k \in 1..Len(out) :
                  /\ kept[k] > Len(history) - MAX_HISTORY_TURNS
                  /\ IsClipOf(out[k].userText, history[kept[k]].userText.text)
                  /\ \A m \in HistoryModelIds :
                        out[k].modelAnswers[m].kind = "string" =>
                            /\ history[kept[k]].modelAnswers[m].kind = "string"
                            /\ IsClipOf(out[k].modelAnswers[m].text,
                                        history[kept[k]].modelAnswers[m].text)

\* A history of nine turns lost its first turn, and the texts of its last
\* turn, one character and two characters over the budget, were cut.
C21_Witness ==
    /\ call.kind = "history"
    /\ rebuilt.status = "built"
    /\ Len(history) = MAX_HISTORY_TURNS + 1
    /\ history[1].userText = JsonString(<<"q">>)
    /\ Len(history[MAX_HISTORY_TURNS + 1].userText.text) = MAX_CHARS_PER_TURN + 1
    /\ Len(history[MAX_HISTORY_TURNS + 1].modelAnswers[call.model].text) = MAX_CHARS_PER_TURN + 2
    /\ Len(rebuilt.sanitized) = MAX_HISTORY_TURNS
    /\ Len(rebuilt.sanitized[MAX_HISTORY_TURNS].userText) = MAX_CHARS_PER_TURN
    /\ Len(rebuilt.sanitized[MAX_HISTORY_TURNS].modelAnswers[call.model].text) = MAX_CHARS_PER_TURN


\* ------------------------------------- properties of the access control

\* AUTH_ENABLED is true, or unset in production.
AuthOn ==
    \/ args.env.AUTH_ENABLED \in {"true", " TRUE "}
    \/ args.env.AUTH_ENABLED = "unset" /\ args.env.NODE_ENV = "production"

\* AUTH_ENABLED is false, or unset outside production.
AuthOff ==
    \/ args.env.AUTH_ENABLED \in {"off", "Off"}
    \/ args.env.AUTH_ENABLED = "unset" /\ args.env.NODE_ENV = "development"

\* The entries each value of AUTH_USERS configures, as user:password texts.
ConfiguredUsers ==
    LET raw == args.env.AUTH_USERS
    IN  IF raw = EnvText(<<"u", ":", "p">>) \/ raw = EnvText(<<"u", ":", "p", ",", "v">>)
        THEN { <<"u", ":", "p">> }
        ELSE IF raw = EnvText(<<" ", "u", " ", ":", " ", "p", " ", ",", "v", ":", "q">>)
        THEN { <<"u", ":", "p">>, <<"v", ":", "q">> }
        ELSE IF raw = EnvText(<<"u", ":", "p", ":", "x">>)
        THEN { <<"u", ":", "p", ":", "x">> }
        ELSE {}

\* The header carries Basic credentials that are those of a configured entry.
CredentialsMatch ==
    /\ args.header.prefix = "Basic "
    /\ args.header.kind = "base64"
    /\ args.header.decoded \in ConfiguredUsers

\* C22: with auth enabled (AUTH_ENABLED true, or unset in production) a
\* request passes only with Basic credentials whose user name and password
\* are those of one AUTH_USERS entry; missing, malformed or other
\* credentials get 401, an AUTH_USERS without a valid entry gets every
\* request 500, and with auth disabled every request passes.
C22_AccessControl ==
    (args.function = "middleware" /\ result.status = "returned") =>
        /\ AuthOff => result.value.kind = "next"
        /\ (AuthOn /\ ConfiguredUsers = {}) => result.value.status = 500
        /\ (AuthOn /\ ConfiguredUsers # {}) =>
              IF CredentialsMatch THEN result.value.kind = "next"
              ELSE result.value.status = 401

\* In production, with two entries configured, the second user's
\* credentials passed.
C22_Witness ==
    /\ args.function = "middleware"
    /\ result.status = "returned"
    /\ args.env.AUTH_ENABLED = "unset"
    /\ args.env.NODE_ENV = "production"
    /\ Cardinality(ConfiguredUsers) = 2
    /\ args.header = AuthHeader("Basic ", "base64", <<"v", ":", "q">>)
    /\ result.value.kind = "next"


\* ----------------------------------- properties of the model selection

\* The providers that own a model id of the list.
ActiveProviders(modelIds) ==
    { provider \in {"openai", "gemini", "claude"} :
         \E i \in 1..Len(modelIds) :
             modelIds[i] \in Range(PROVIDER_MODEL_SLIDERS[provider].steps) }

\* The first model id of the list that the provider owns.
FirstListed(modelIds, provider) ==
    IF provider \in ActiveProviders(modelIds)
    THEN << modelIds[CHOOSE i \in 1..Len(modelIds) :
               /\ modelIds[i] \in Range(PROVIDER_MODEL_SLIDERS[provider].steps)
               /\ \A j \in 1..(i - 1) :
                     modelIds[j] \notin Range(PROVIDER_MODEL_SLIDERS[provider].steps)] >>
    ELSE <<>>

\* Only slider model ids, at most one per provider, in the provider order.
IsSelection(modelIds) ==
    /\ \A i \in 1..Len(modelIds) : modelIds[i] \in SliderModelIds
    /\ \A i, j \in 1..Len(modelIds) :
          i < j => \E a, b \in 1..Len(SLIDER_PROVIDER_ORDER) :
                      /\ a < b
                      /\ modelIds[i] \in Range(PROVIDER_MODEL_SLIDERS[SLIDER_PROVIDER_ORDER[a]].steps)
                      /\ modelIds[j] \in Range(PROVIDER_MODEL_SLIDERS[SLIDER_PROVIDER_ORDER[b]].steps)

SliderOperated == args.function = "sliders" /\ result.status = "applied"

\* The operation switched off the only active provider of the list.
OffOnOnlyActive ==
    /\ SliderOperated
    /\ \/ result.op = "toggle"
       \/ result.op = "set" /\ result.nextModelId = <<>>
    /\ ActiveProviders(result.before) = {result.provider}

\* C23: the selection is never empty: after every slider operation, from
\* any list of model ids, at least one model is selected; a toggle or an off
\* on the only active provider leaves that provider on with the model it
\* had, and returns a list that was a selection as it was.
C23_SelectionNeverEmpty ==
    /\ (SliderOperated /\ result.op \in {"toggle", "set"}) =>
          /\ Len(result.value) >= 1
          /\ IsSelection(result.value)
          /\ args.modelIds = result.value
    /\ OffOnOnlyActive =>
          /\ result.value = FirstListed(result.before, result.provider)
          /\ IsSelection(result.before) => result.value = result.before

\* The only active provider was toggled and the selection stayed as it was.
C23_Witness ==
    /\ OffOnOnlyActive
    /\ result.op = "toggle"
    /\ result.before = << "claude-opus-4-6" >>
    /\ result.value = << "claude-opus-4-6" >>

KnownModelIds ==
    { "gemini-3-pro", "gpt-5.2", "gpt-5.2-high", "gpt-5.2-pro", "claude-opus-4-6-low",
      "claude-opus-4-6-high", "claude-opus-4-6", "claude-sonnet-4-6" }

\* The positions of the stored array that hold a known model id.
KnownPositions ==
    { i \in 1..Len(args.rawJson.value.items) :
         /\ args.rawJson.value.items[i].type = "string"
         /\ args.rawJson.value.items[i].text \in KnownModelIds }

\* The position where a known id first occurs in the stored array.
FirstPositionOf(id) ==
    CHOOSE i \in KnownPositions :
        /\ args.rawJson.value.items[i].text = id
        /\ \A j \in KnownPositions : args.rawJson.value.items[j].text = id => i <= j

GeminiEnded == ast.status \in {"returned", "thrown"}

\* The delivery of this step is an error that matches the heuristic.
ToolErrorDelivered ==
    /\ Len(feed') = Len(feed) + 1
    /\ feed'[Len(feed')].what = "error"
    /\ feed'[Len(feed')].val.toolHint
    /\ feed'[Len(feed')].val.compatHint

C26_Step ==
    call.kind = "gemini" =>
        LET attemptToolSets == buildAttemptToolSets(env)
            retried         == Len(sent') = Len(sent) + 1
            mayRetry        == /\ ToolErrorDelivered
                               /\ Len(sent) < Len(attemptToolSets)
                               /\ yields = <<>>
        IN  /\ ~GeminiEnded
            /\ Len(sent') <= Len(attemptToolSets)
            /\ sent' = SubSeq(attemptToolSets, 1, Len(sent'))
            /\ retried \/ sent' = sent
            /\ retried => mayRetry /\ ast'.status = "calling" /\ yields' = <<>>
            /\ ast'.status \in {"calling", "streaming", "returned", "thrown"}
            /\ ast'.status = "returned" =>
                  /\ ast.status = "streaming"
                  /\ feed'[Len(feed')].what = "end"
            /\ ast'.status = "thrown" =>
                  /\ feed'[Len(feed')].what = "error"
                  /\ ~mayRetry

\* C26: streamGeminiResponse's tool fallback: the tool sets are requested
\* in list order, each at most once, so never more requests than tool sets;
\* the next set is requested only after an attempt failed with an error
\* that matches the heuristic, with nothing emitted and a set left; nothing
\* happens after the attempt that completes; the call ends completed, at
\* the end of a stream, or failed, on the error of its last attempt.
C26_ToolFallback == [][C26_Step]_vars

\* Two attempts failed on tool errors and the third, without tools,
\* completed.
C26_Witness ==
    /\ call.kind = "gemini"
    /\ Len(buildAttemptToolSets(env)) = 3
    /\ Len(sent) = 3
    /\ sent[3] = <<>>
    /\ ast.status = "returned"
    /\ yields # <<>>


\* ------------------------------------ properties of the envelopes per model

\* The content envelopes of the invocation b, in wire order, as type and
\* content.
ContentWritten(b) ==
    LET written == SelectSeq(WireOf(b),
                             LAMBDA e : /\ e.modelId = branch[b].modelId
                                        /\ e.type \in {"chunk", "reasoning_summary_chunk"})
    IN  [i \in 1..Len(written) |-> <<written[i].type, written[i].content>>]

\* The events with content the adapter of b yielded, in yield order, as the
\* envelope type of each and its content.
ContentYielded(b) ==
    LET yielded == SelectSeq(branch[b].evs,
                             LAMBDA ev : /\ ev.type \in {"answer_delta", "reasoning_summary_delta"}
                                         /\ ev.content # <<>>)
    IN  [i \in 1..Len(yielded) |->
            << IF yielded[i].type = "answer_delta" THEN "chunk" ELSE "reasoning_summary_chunk",
               yielded[i].content >>]

\* The contents of one type, concatenated.
TextOfType(pairs, type) ==
    LET ofType == SelectSeq(pairs, LAMBDA p : p[1] = type)
    IN  Flatten([i \in 1..Len(ofType) |-> ofType[i][2]])

\* C27: for every invocation of a model, the content envelopes on the wire
\* are the adapter's events with content, in the order they were yielded,
\* so the chunk contents concatenate to the answer_delta contents and the
\* reasoning chunks to the reasoning deltas, under every interleaving of
\* the branches; a branch whose write was rejected has written a prefix.
C27_PerModelOrderAndContent ==
    \A b \in DOMAIN branch :
        IF branch[b].pc = "rejected"
        THEN IsPrefixOf(ContentWritten(b), ContentYielded(b))
        ELSE /\ ContentWritten(b) = ContentYielded(b)
             /\ \A type \in {"chunk", "reasoning_summary_chunk"} :
                   TextOfType(ContentWritten(b), type) = TextOfType(ContentYielded(b), type)

\* Two branches ended with `done`; the second wrote its content before the
\* first did, and the first wrote reasoning and then an answer.
C27_Witness ==
    /\ Len(request.models) = 2
    /\ \A b \in DOMAIN branch : branch[b].pc = "fulfilled" /\ ContentYielded(b) # <<>>
    /\ \E i, j \in 1..Len(wire) :
          /\ i < j
          /\ wire[i].branch = 2 /\ wire[i].type \in {"chunk", "reasoning_summary_chunk"}
          /\ wire[j].branch = 1 /\ wire[j].type \in {"chunk", "reasoning_summary_chunk"}
    /\ ~clientAborted


\* ------------------------------------- properties of the reasoning bracket

\* C28: for every invocation that ended with `done`: when a reasoning chunk
\* was written, one reasoning_summary_start was, before the first chunk,
\* and one reasoning_summary_done was, before `done`, whether or not the
\* adapter yielded one; when no reasoning chunk was written, neither a
\* start nor a done was.
C28_ReasoningBracket ==
    \A b \in DOMAIN branch :
        LET w      == WireOf(b)
            ends   == Positions(w, {"done"})
            chunks == Positions(w, {"reasoning_summary_chunk"})
            starts == Positions(w, {"reasoning_summary_start"})
            closes == Positions(w, {"reasoning_summary_done"})
        IN  ends # {} =>
               IF chunks # {}
               THEN /\ Cardinality(starts) = 1
                    /\ \A s \in starts, c \in chunks : s < c
                    /\ Cardinality(closes) = 1
                    /\ \A c \in closes, d \in ends : c < d
                    /\ \A s \in starts, c \in closes : s < c
               ELSE starts = {} /\ closes = {}

\* An invocation ended with `done` and a closed bracket although its
\* adapter yielded reasoning and no reasoning_summary_done.
C28_Witness ==
    \E b \in DOMAIN branch :
        /\ Positions(WireOf(b), {"done"}) # {}
        /\ Positions(WireOf(b), {"reasoning_summary_chunk"}) # {}
        /\ Cardinality(Positions(WireOf(b), {"reasoning_summary_done"})) = 1
        /\ \A i \in 1..Len(branch[b].evs) : branch[b].evs[i].type # "reasoning_summary_done"


\* ------------------------------------ properties of the diff without overlap

\* The text fed in this step.
Incoming == incomings'[Len(incomings')]

\* The text fed neither starts with the baseline nor is contained in it.
NoOverlap ==
    /\ Len(incomings') = Len(incomings) + 1
    /\ ~StartsWith(Incoming, previous)
    /\ ~Includes(previous, Incoming)

\* C29: a text that neither starts with the baseline nor is
\* contained in it is emitted whole as the delta and becomes the baseline.
C29_IncomingBecomesBaseline ==
    [][NoOverlap => /\ deltas'[Len(deltas')] = Incoming
                    /\ previous' = Incoming]_vars

\* What the code does in that case: the text is emitted whole as the delta,
\* and the baseline becomes the old baseline followed by that text.
IncomingExtendsBaseline ==
    [][NoOverlap => /\ deltas'[Len(deltas')] = Incoming
                    /\ previous' = previous \o Incoming]_vars


\* --------------------------------- properties of concurrent submissions

\* Submission s took a step of its own: a data line, the end or the catch.
SubmissionActed(s) == submissions'[s] # submissions[s] /\ submissions[s].step = "read"

\* C30: the events of a submission modify the live answers of its own
\* question only: while the live answers are those of another question,
\* started in another session, a chunk, done or error of the submission
\* (and its end or failure) leaves the live content and status of every
\* model as they are.
C30_LiveAnswerIsolation ==
    [][\A s \in SubmissionIds :
          (SubmissionActed(s) /\ currentQuestionId # submissions[s].questionId)
              => answers' = answers]_vars

\* A submission of the session is in its read loop.
InFlight(sessionId) ==
    \E s \in SubmissionIds :
        submissions[s].step = "read" /\ submissions[s].execSessionId = sessionId

\* C31: as long as a submission of a session is in flight, the session is
\* listed as generating and the controller registered for it is that of a
\* submission still in flight, so that handleStop on the session aborts
\* in-flight work; the end of one submission neither clears the flag nor
\* removes the controller of another one still running.
C31_GenerationTracked ==
    \A sessionId \in Range(OpenSessions) :
        InFlight(sessionId) =>
            /\ isGenerating(sessionId)
            /\ abortControllers[sessionId] # 0
            /\ submissions[abortControllers[sessionId]].step = "read"

\* Submission s made the terminal update of model m: a done or error line
\* went through the dispatch, or the catch ended an unfinished answer.
TerminalUpdate(s, m) ==
    /\ SubmissionActed(s)
    /\ m \in DOMAIN submissions[s].modelStatus
    /\ Terminal(submissions'[s].modelStatus[m])
    /\ \/ ~Terminal(submissions[s].modelStatus[m])
       \/ /\ submissions'[s].lines # submissions[s].lines
          /\ submissions'[s].chunks = submissions[s].chunks
          /\ submissions'[s].reasoningByModel = submissions[s].reasoningByModel

SessionIds(ss) == {ss[i].id : i \in DOMAIN ss}

\* C32: whatever session is shown, the terminal update of a submission for
\* a model is written to the question and session the submission was made
\* in, with the chunk contents the submission received for the model, in
\* the order of arrival, as content; every other session is left as it is,
\* and an update for a deleted session changes nothing and does not list
\* the session again.
C32_ResultsRouted ==
    [][\A s \in SubmissionIds : \A m \in Range(selectedModels) :
          TerminalUpdate(s, m) =>
              LET sub  == submissions'[s]
                  here == sub.execSessionId \in SessionIds(sessions)
              IN  /\ SessionIds(sessions') = SessionIds(sessions)
                  /\ \A i \in DOMAIN sessions :
                        sessions[i].id # sub.execSessionId => sessions'[i] = sessions[i]
                  /\ ~here => sessions' = sessions
                  /\ here =>
                        LET a == AnswersOf(sessions', sub.questionId, sub.execSessionId)
                        IN  /\ m \in DOMAIN a
                            /\ a[m].status = sub.modelStatus[m]
                            /\ a[m].content = Flatten(sub.chunks[m])]_vars

\* A finished answer with content was stored in a session that is not shown.
C32_Witness ==
    \E s \in SubmissionIds : \E m \in Range(selectedModels) :
        /\ submissions[s].step # "idle"
        /\ submissions[s].execSessionId # currentSessionId
        /\ submissions[s].modelStatus[m] = "done"
        /\ submissions[s].chunks[m] # <<>>
        /\ LET a == AnswersOf(sessions, submissions[s].questionId,
                              submissions[s].execSessionId)
           IN  /\ m \in DOMAIN a
               /\ a[m].status = "done"
               /\ a[m].content = Flatten(submissions[s].chunks[m])

\* ------------------------------------------ properties of the Gemini diff

\* C33: when every text the provider sends is a fragment of new text, the
\* deltas emitted, put together, are the fragments received, put together:
\* no fragment that is not empty is dropped.
C33_NoTextLoss == Flatten(deltas) = Flatten(incomings)

\* The text of the events of one type among those yielded so far.
Emitted(evs, type) ==
    Flatten([i \in 1..Len(SelectSeq(evs, LAMBDA e : e.type = type)) |->
                SelectSeq(evs, LAMBDA e : e.type = type)[i].content])

BaselinesAreEmitted ==
    call.kind = "gemini" =>
        /\ ast.previousAnswerText = Emitted(yields, "answer_delta")
        /\ ast.previousThoughtText = Emitted(yields, "reasoning_summary_delta")

BaselinesKept ==
    call.kind = "gemini" =>
        /\ Emitted(yields', "answer_delta") = Emitted(yields, "answer_delta")
              => ast'.previousAnswerText = ast.previousAnswerText
        /\ Emitted(yields', "reasoning_summary_delta") = Emitted(yields, "reasoning_summary_delta")
              => ast'.previousThoughtText = ast.previousThoughtText
        /\ IsPrefixOf(ast.previousAnswerText, ast'.previousAnswerText)
        /\ IsPrefixOf(ast.previousThoughtText, ast'.previousThoughtText)

\* C34: at every point of a streamGeminiResponse call, for the answer text
\* and for the thought text apart, the baseline kept is the deltas of that
\* category emitted so far, put together; a step that emits nothing of a
\* category leaves its baseline as it is, and a baseline never shrinks.
C34_BaselineIsEmitted == []BaselinesAreEmitted /\ [][BaselinesKept]_vars

\* Both baselines hold emitted text, the answer's from two deltas.
C34_Witness ==
    /\ call.kind = "gemini"
    /\ ast.previousAnswerText = <<"a", "b">>
    /\ ast.previousThoughtText = <<"a">>
    /\ Len(SelectSeq(yields, LAMBDA e : e.type = "answer_delta")) = 2

\* --------------------------------------- properties of the reads in pieces

\* The lines of a text that a line feed ends, in order.
EndedLines(text) ==
    LET lines == SplitOn(text, "\n") IN SubSeq(lines, 1, Len(lines) - 1)

\* What the call yields when text is all it has read, in one piece.
YieldsOf(text) ==
    OpenAIOnRead([OpenAIStart EXCEPT !.status = "streaming"],
                 [i \in 1..Len(EndedLines(text)) |-> ParseSseLine(EndedLines(text)[i])]).events

\* C35: however the provider's stream is cut into reads, streamOpenAIResponse
\* yields the events of the lines that a line feed has ended so far, each
\* line once, and keeps the text after the last line feed for the next
\* read: two ways of cutting the same stream yield the same events.
C35_SplitIndependent ==
    LET read == SubSeq(stream, 1, BytesRead)
    IN  /\ yields = YieldsOf(read)
        /\ buffer = SplitOn(read, "\n")[Len(SplitOn(read, "\n"))]

\* A data line arrived in two reads, cut inside the line, and was yielded once.
C35_Witness ==
    /\ stream = <<"d", "x", "\n">>
    /\ Len(feed) = 3
    /\ feed[1].val = <<"d">>
    /\ feed[3].what = "end"
    /\ yields = <<AnswerDelta(<<"a">>)>>

\* ------------------------------------------ properties of the OpenAI tools

\* The model of the request body is of the pro tier: gpt-5.2-pro was
\* requested, or the resolved name contains gpt-5.2-pro.
ProTier == args.model = "gpt-5.2-pro" \/ IncludesGpt52Pro(result.modelName)

\* C36: no request for a pro-tier model carries the code_interpreter tool,
\* whatever the tool flags and the model-name overrides, neither the first
\* request nor the web-only retry.
C36_NoCodeInterpreterForPro ==
    (result.status = "built" /\ ProTier) =>
        /\ "code_interpreter" \notin Range(result.initialTools)
        /\ "code_interpreter" \notin Range(result.webOnlyTools)

\* ------------------------------------- properties of the swap of a model

\* The selection the list stands for: per provider its first listed model,
\* and the default model of openai when no provider has one.
SelectionOf(modelIds) ==
    IF ActiveProviders(modelIds) = {} THEN << PROVIDER_MODEL_SLIDERS["openai"].defaultModelId >>
    ELSE FirstListed(modelIds, "openai") \o FirstListed(modelIds, "gemini")
         \o FirstListed(modelIds, "claude")

Swapped == args.function = "setProviderModelSelection" /\ result.status = "applied"

C38_DragStateMatchesHook ==
    /\ computed.counter = dragCounter
    /\ computed.isDragging = isDragging
    /\ (dragEvents # <<>> /\ dragEvents[Len(dragEvents)].type = "leave" /\ dragCounter = 0)
          => ~isDragging

\* ------------------------------------- properties of the stored sessions

\* C39: after the hydration and any sequence of createSession, selectSession
\* of a listed session and deleteSession, currentSessionId is null or the id
\* of a listed session.
C39_CurrentSessionListed ==
    currentSessionId = 0 \/ currentSessionId \in ListedIds(sessions)

\* The deletion alone: deleting the current session makes the last session
\* that remains current, or none; deleting another session leaves
\* currentSessionId as it is.
DeletionMovesCurrent ==
    [][DeleteListedSession =>
          \E id \in ListedIds(sessions) :
              /\ ListedIds(sessions') = ListedIds(sessions) \ {id}
              /\ IF id # currentSessionId THEN currentSessionId' = currentSessionId
                 ELSE IF sessions' = <<>> THEN currentSessionId' = 0
                 ELSE currentSessionId' = sessions'[Len(sessions')].id]_vars

\* The answers of a list of sessions, with their places.
AnswerPlaces(ss) ==
    { <<i, k, m>> \in (DOMAIN ss) \X {1} \X {SessionModel} :
         k \in DOMAIN ss[i].questions /\ m \in DOMAIN ss[i].questions[k].answers }

AnswerAt(ss, p) == ss[p[1]].questions[p[2]].answers[p[3]]

\* C40: after the load from storage every answer is done or failed: an
\* answer stored as pending or streaming is done, with the content it was
\* stored with, every other answer is as stored, and no session is marked
\* as generating a title.
C40_LoadedAnswersTerminal ==
    (lastLoad.fresh /\ lastLoad.raw # <<>>) =>
        /\ Len(sessions) = Len(lastLoad.raw)
        /\ AnswerPlaces(sessions) = AnswerPlaces(lastLoad.raw)
        /\ \A i \in DOMAIN sessions :
              /\ sessions[i].id = lastLoad.raw[i].id
              /\ ~sessions[i].isGeneratingTitle
        /\ \A p \in AnswerPlaces(sessions) :
              /\ AnswerAt(sessions, p).status \in {"done", "error"}
              /\ AnswerAt(sessions, p).content = AnswerAt(lastLoad.raw, p).content
              /\ AnswerAt(sessions, p).status =
                    IF AnswerAt(lastLoad.raw, p).status \in {"pending", "streaming"}
                    THEN "done" ELSE AnswerAt(lastLoad.raw, p).status

\* The page was loaded with a streaming answer with content in storage, and
\* the answer is done with that content.
C40_Witness ==
    /\ lastLoad.fresh
    /\ \E p \in AnswerPlaces(lastLoad.raw) :
          /\ AnswerAt(lastLoad.raw, p).status = "streaming"
          /\ AnswerAt(lastLoad.raw, p).content = <<"a">>
          /\ p \in AnswerPlaces(sessions)
          /\ AnswerAt(sessions, p).status = "done"
          /\ AnswerAt(sessions, p).content = <<"a">>

=============================================================================
